---- MODULE Spec2Model ----
(***************************************************************************)
(* A model of the DaVinci Fusion macro editor: the parser (parser.js), the *)
(* writer (writer.js) and the editor's event handlers (script.js).         *)
(*                                                                         *)
(* A .setting file is modelled by its structure, not by its characters:    *)
(* the text before and after the operator, the operator's header, the      *)
(* entries of its body (Inputs, Outputs, ViewInfo, Tools and any other),   *)
(* the InstanceInput declarations of the Inputs block with the properties  *)
(* the code reads or rewrites (Page, Source, Name), and the descriptors of *)
(* the helper node's UserControls block.                                   *)
(***************************************************************************)
EXTENDS Integers, Sequences, FiniteSets, TLC

VARIABLES
    tree,               \* script.js:5    the nodes reachable from the root, by id
    originalContent,    \* script.js:7    the text handed to the last load
    mainOperatorName,   \* script.js:9
    mainOperatorType,   \* script.js:10
    originalTools,      \* script.js:11   the content of the parsed Tools block
    maxAutoLabelIndex,  \* script.js:12
    selectedIds,        \* script.js:13
    lastSelectedId,     \* script.js:14
    outputText,         \* script.js:35   ui.outputText.value
    edits,              \* number of editor operations since the load
    last,               \* the last load, edit or regeneration, and the ids it acted on
    call                \* a call of a text function: its text and what it returned

vars == <<tree, originalContent, mainOperatorName, mainOperatorType,
          originalTools, maxAutoLabelIndex, selectedIds, lastSelectedId,
          outputText, edits, last, call>>

(***************************************************************************)
(* Bounds of the model.                                                    *)
(***************************************************************************)
MaxDecls == 3       \* declarations in a file of the parse/regenerate pipeline
MaxSize == 2        \* largest LBLC_NumInputs in such a file
MaxLoad == 2        \* declarations in a file loaded into an editing session
MaxLoadSize == 1    \* largest LBLC_NumInputs in such a file
MaxEdits == 2       \* editor operations in one session

(***************************************************************************)
(* Values.                                                                 *)
(***************************************************************************)
None == "none"              \* undefined / null / a property that is absent
NoKey == -1                 \* a GROUP whose internalKey is unset
SepSource == -2             \* Source = "Separator"
PlainSource == -3           \* Source = any name that is no AutoLabel<N>
RootId == 0                 \* parser.js: the root is created first, nextId = 0
NoId == -1                  \* null: no parent, no last selected id
FirstFreshId == 100         \* Date.now() is larger than every id of the parser
DefaultPage == "Controls"

Max(a, b) == IF a >= b THEN a ELSE b
Min(a, b) == IF a <= b THEN a ELSE b

RECURSIVE SeqMax(_)
SeqMax(s) == IF s = <<>> THEN 0 ELSE Max(Head(s), SeqMax(Tail(s)))

RECURSIVE Flat(_)
\* Concatenation of a sequence of sequences.
Flat(ss) == IF ss = <<>> THEN <<>> ELSE Head(ss) \o Flat(Tail(ss))

IndexOf(s, x) ==
    \* Array.prototype.indexOf, 1-based; 0 when x is not in s
    IF \E i \in 1..Len(s) : s[i] = x
    THEN CHOOSE i \in 1..Len(s) : s[i] = x /\ \A j \in 1..(i - 1) : s[j] # x
    ELSE 0

Range(s) == {s[i] : i \in 1..Len(s)}

(***************************************************************************)
(* Declarations and files.                                                 *)
(***************************************************************************)
\* One "<key> = InstanceInput { ... }" declaration: its key and the values
\* of the properties the code looks at, None for a property that is absent.
Block(key, page, source, name) ==
    [key |-> key, page |-> page, source |-> source, name |-> name]

NoBlock == Block(None, None, PlainSource, None)

\* One "AutoLabel<N> = { ... }" descriptor of the helper's UserControls.
Descriptor(label, name, nestLevel, numInputs) ==
    [label |-> label, name |-> name, nestLevel |-> nestLevel,
     numInputs |-> numInputs]

\* The text writer.js puts around the operator (writer.js:257-262).
TemplatePre == "{ Tools = ordered() {"
TemplatePost == "}, ActiveTool }"

\* A file: the text before the operator (pre) and after it (post), whether
\* an operator header is found, and the entries of the operator's body.
\* extras are the body's entries other than Inputs, Outputs, ViewInfo and
\* Tools; otherTools are the tools other than the helper node.
File(pre, post, hasOperator, extras, hasInputs, inputs, outputs, viewInfo, otherTools, hasHelper, userControls) ==
    [pre |-> pre, post |-> post, hasOperator |-> hasOperator,
     name |-> "Macro", type |-> "MacroOperator", extras |-> extras,
     hasInputs |-> hasInputs, inputs |-> inputs, outputs |-> outputs,
     viewInfo |-> viewInfo, otherTools |-> otherTools,
     hasHelper |-> hasHelper, userControls |-> userControls]

EmptyFile ==
    File("", "", FALSE, <<>>, FALSE, <<>>, None, None, <<>>, FALSE, <<>>)

Tools(otherTools, hasHelper, userControls) ==
    [otherTools |-> otherTools, hasHelper |-> hasHelper,
     userControls |-> userControls]

NoTools == Tools(<<>>, FALSE, <<>>)

(***************************************************************************)
(* parser.js                                                               *)
(***************************************************************************)
Node(type, name, parent, key, block, propName, hidden, internalKey) ==
    [type |-> type, name |-> name, parent |-> parent, children |-> <<>>,
     key |-> key, block |-> block, propName |-> propName, hidden |-> hidden,
     internalKey |-> internalKey, renamed |-> FALSE]

RootNode == Node("ROOT", None, NoId, None, NoBlock, None, FALSE, NoKey)

EmptyTree == (RootId :> RootNode)

\* properties[k] = quoted || braced || bare: an empty quoted value is
\* falsy, and the property is left undefined.
ExtractValue(v) == IF v = "" THEN None ELSE v

ExtractProperties(block) ==
    [page |-> ExtractValue(block.page), source |-> block.source,
     name |-> ExtractValue(block.name)]

\* Pass 1, first loop: one item per declaration.
AllControlData(decls) ==
    [i \in 1..Len(decls) |->
        LET properties == ExtractProperties(decls[i]) IN
        [type |-> IF properties.source = SepSource
                  THEN "SEPARATOR_DATA" ELSE "CONTROL_DATA",
         name |-> None, key |-> decls[i].key, properties |-> properties,
         block |-> decls[i]]]

PageMarker(name) ==
    [type |-> "PAGE_MARKER", name |-> name, key |-> None,
     properties |-> [page |-> None, source |-> PlainSource, name |-> None],
     block |-> NoBlock]

\* EmitsMarker with the comparison to the current page left out.
EmitsMarkerEveryPage(pageProperty, currentPageName, firstControl) ==
    pageProperty # None

\* Whether a PAGE_MARKER is pushed before the item with Page property
\* pageProperty (None: undefined) when the current page is currentPageName.
EmitsMarker(pageProperty, currentPageName, firstControl) ==
    IF firstControl
    THEN pageProperty # None /\ pageProperty # "Controls"
    ELSE pageProperty # None /\ pageProperty # currentPageName

RECURSIVE InferPages(_, _, _)
\* Pass 1, second loop: the flat list, with the page markers.
InferPages(items, currentPageName, firstControl) ==
    IF items = <<>> THEN <<>>
    ELSE LET item == Head(items)
             pageProperty == item.properties.page
             emit == EmitsMarker(pageProperty, currentPageName, firstControl)
             stripped == [item EXCEPT !.properties.page = None]
         IN (IF emit THEN <<PageMarker(pageProperty)>> ELSE <<>>)
            \o <<stripped>>
            \o InferPages(Tail(items),
                          IF emit THEN pageProperty ELSE currentPageName,
                          FALSE)

FlatList(file) ==
    IF file.hasInputs
    THEN InferPages(AllControlData(file.inputs), DefaultPage, TRUE)
    ELSE <<>>

\* Pass 2: the descriptors that have a name, a nest level and a size, by
\* label; a later descriptor of the same label replaces an earlier one.
MetadataMap(tools) ==
    LET ucs == IF tools.hasHelper THEN tools.userControls ELSE <<>>
        valid == {i \in 1..Len(ucs) : ucs[i].name # ""}
        latest(l) == CHOOSE i \in valid :
                        /\ ucs[i].label = l
                        /\ \A j \in valid : ucs[j].label = l => j <= i
    IN [l \in {ucs[i].label : i \in valid} |->
            [name |-> ucs[latest(l)].name,
             nestLevel |-> ucs[latest(l)].nestLevel,
             childCount |-> ucs[latest(l)].numInputs]]

ParsedMaxAutoLabelIndex(tools) ==
    LET ucs == IF tools.hasHelper THEN tools.userControls ELSE <<>>
    IN SeqMax([i \in 1..Len(ucs) |-> ucs[i].label])

\* IsMainInput without the i flag of the expression.
IsMainInputCaseSensitive(key) == key = "MainInput1"

\* /^MainInput\d+$/i
IsMainInput(key) == key \in {"MainInput1", "maininput2", "MAININPUT3"}

\* parent.children.push(node), with the node's id taken from nextId++.
\* PushNode with unshift for push: the node goes before its siblings.
PushNodeFront(st, parentId, node) ==
    [st EXCEPT
        !.nodes = [@ EXCEPT ![parentId].children = <<st.nextId>> \o @]
                  @@ (st.nextId :> node),
        !.nextId = @ + 1]

PushNode(st, parentId, node) ==
    [st EXCEPT
        !.nodes = [@ EXCEPT ![parentId].children = Append(@, st.nextId)]
                  @@ (st.nextId :> node),
        !.nextId = @ + 1]

\* SpliceCount taking the proxy's own slot for one of the childCount items.
SpliceCountOffByOne(childCount, items) ==
    Min(Max(childCount - 1, 0), Len(items))

\* SpliceCount without the count: splice(0) takes every item that is left.
SpliceCountAll(childCount, items) == Len(items)

\* items.splice(0, childCount): how many items are taken.
SpliceCount(childCount, items) == Min(childCount, Len(items))

RECURSIVE BuildTreeRecursive(_, _, _, _)
\* Pass 3. st holds the nodes built so far and nextId; st.log records, for
\* each GROUP built, the size read from the metadata, the number of items
\* left in the list the proxy was read from, and the number spliced.
BuildTreeRecursive(parentId, items, metadataMap, st) ==
    IF items = <<>> THEN st
    ELSE
    LET item == Head(items)
        rest == Tail(items)
    IN CASE item.type = "PAGE_MARKER" ->
            BuildTreeRecursive(parentId, rest, metadataMap,
                PushNode(st, RootId,
                    Node("PAGE", item.name, RootId, None, NoBlock, None,
                         FALSE, NoKey)))
         [] item.type = "SEPARATOR_DATA" ->
            BuildTreeRecursive(parentId, rest, metadataMap,
                PushNode(st, parentId,
                    Node("SEPARATOR", None, parentId, item.key, item.block,
                         item.properties.name, FALSE, NoKey)))
         [] OTHER ->
            IF item.properties.source \in DOMAIN metadataMap
            THEN LET metadata == metadataMap[item.properties.source]
                     groupId == st.nextId
                     n == SpliceCount(metadata.childCount, rest)
                     st1 == PushNode(st, parentId,
                                Node("GROUP", metadata.name, parentId,
                                     item.key, item.block,
                                     item.properties.name, FALSE,
                                     item.properties.source))
                     st2 == [st1 EXCEPT !.log = @ @@ (groupId :>
                                [declared |-> metadata.childCount,
                                 remaining |-> Len(rest), taken |-> n])]
                     st3 == BuildTreeRecursive(groupId, SubSeq(rest, 1, n),
                                               metadataMap, st2)
                 IN BuildTreeRecursive(parentId,
                                       SubSeq(rest, n + 1, Len(rest)),
                                       metadataMap, st3)
            ELSE BuildTreeRecursive(parentId, rest, metadataMap,
                    PushNode(st, parentId,
                        Node("CONTROL", None, parentId, item.key, item.block,
                             item.properties.name, IsMainInput(item.key),
                             NoKey)))

ToolsOf(file) == Tools(file.otherTools, file.hasHelper, file.userControls)

\* parseSettingFile: the tree and the rest of what it returns.
ParseSettingFile(content) ==
    IF ~content.hasOperator
    THEN [tree |-> EmptyTree, log |-> <<>>, mainOperatorName |-> "",
          mainOperatorType |-> "", originalTools |-> NoTools,
          maxAutoLabelIndex |-> 0]
    ELSE LET built == BuildTreeRecursive(RootId, FlatList(content),
                          MetadataMap(ToolsOf(content)),
                          [nodes |-> EmptyTree, nextId |-> 1, log |-> <<>>])
         IN [tree |-> built.nodes, log |-> built.log,
             mainOperatorName |-> content.name,
             mainOperatorType |-> content.type,
             originalTools |-> ToolsOf(content),
             maxAutoLabelIndex |-> ParsedMaxAutoLabelIndex(ToolsOf(content))]

(***************************************************************************)
(* writer.js                                                               *)
(***************************************************************************)
RECURSIVE Flatten(_, _)
\* flatten: the nodes other than the root, in depth-first pre-order.
Flatten(t, id) ==
    (IF t[id].type # "ROOT" THEN <<id>> ELSE <<>>)
    \o Flat([i \in 1..Len(t[id].children) |-> Flatten(t, t[id].children[i])])

\* scan: the largest AutoLabel index on a GROUP of the tree.
MaxFromTree(t) ==
    LET keyed == {id \in DOMAIN t :
                    t[id].type = "GROUP" /\ t[id].internalKey # NoKey}
    IN IF keyed = {} THEN 0
       ELSE CHOOSE n \in {t[id].internalKey : id \in keyed} :
                \A id \in keyed : t[id].internalKey <= n

\* FirstAutoLabel without the index read from the parsed metadata.
FirstAutoLabelTreeOnly(t, maxIndex) == MaxFromTree(t) + 1

\* The first value of autoLabelCounter.
FirstAutoLabel(t, maxIndex) == Max(maxIndex, MaxFromTree(t)) + 1

RECURSIVE AssignLabels(_, _, _)
\* generateBaseBlock, lines 157-159, over the flat list in order: a GROUP
\* without internalKey takes autoLabelCounter++. PAGE items are skipped.
AssignLabels(t, flatList, autoLabelCounter) ==
    IF flatList = <<>> THEN t
    ELSE LET id == Head(flatList) IN
         IF t[id].type = "GROUP" /\ t[id].internalKey = NoKey
         THEN AssignLabels([t EXCEPT ![id].internalKey = autoLabelCounter],
                           Tail(flatList), autoLabelCounter + 1)
         ELSE AssignLabels(t, Tail(flatList), autoLabelCounter)

RECURSIVE GetDepth(_, _)
\* getDepth: the number of GROUP nodes among the ancestors of the node.
GetDepth(t, id) ==
    LET p == t[id].parent IN
    IF p \notin DOMAIN t \/ t[p].type = "ROOT" THEN 0
    ELSE (IF t[p].type = "GROUP" THEN 1 ELSE 0) + GetDepth(t, p)

RECURSIVE CountDescendants(_, _)
\* countDescendants: every child counts one, and the children of a GROUP
\* child are counted in turn.
CountDescendants(t, id) ==
    LET ch == t[id].children
        F[i \in 0..Len(ch)] ==
            IF i = 0 THEN 0
            ELSE F[i - 1] + 1 +
                 (IF t[ch[i]].type = "GROUP"
                  THEN CountDescendants(t, ch[i]) ELSE 0)
    IN F[Len(ch)]

\* updateInstanceInputName: the Name property is rewritten or inserted.
UpdateInstanceInputName(block, newName) == [block EXCEPT !.name = newName]

\* AddPageProperty with the insertion only: a Page property that the block
\* already has is left as it is.
AddPagePropertyInsertOnly(block, pageName) ==
    IF pageName = None \/ pageName = "" \/ block.page # None THEN block
    ELSE [block EXCEPT !.page = pageName]

\* addPageProperty: the Page property is rewritten or inserted.
AddPageProperty(block, pageName) ==
    IF pageName = None \/ pageName = "" THEN block
    ELSE [block EXCEPT !.page = pageName]

\* generateBaseBlock, on a tree whose groups have their labels.
GenerateBaseBlock(t, id) ==
    LET node == t[id] IN
    CASE node.type = "CONTROL" ->
            IF node.renamed /\ node.propName # None
            THEN UpdateInstanceInputName(node.block, node.propName)
            ELSE node.block
      [] node.type = "GROUP" ->
            Block(IF node.key # None THEN node.key
                  ELSE "AutoLabel" \o ToString(node.internalKey),
                  None, node.internalKey, None)
      [] node.type = "SEPARATOR" ->
            Block(IF node.key # None THEN node.key ELSE "Separator",
                  None, SepSource, None)
      [] OTHER -> NoBlock

\* GroupDescriptor with the nest level of a group under the root for all.
GroupDescriptorFlat(t, id) ==
    Descriptor(t[id].internalKey, t[id].name, 1, CountDescendants(t, id))

\* The descriptor pushed on userControls for a GROUP.
GroupDescriptor(t, id) ==
    Descriptor(t[id].internalKey, t[id].name, GetDepth(t, id) + 1,
               CountDescendants(t, id))

RECURSIVE MainInputs(_, _, _)
\* The loop of lines 188-199: the declarations, each with the Page property
\* of the page it follows.
MainInputs(t, flatList, currentPageName) ==
    IF flatList = <<>> THEN <<>>
    ELSE LET id == Head(flatList) IN
         IF t[id].type = "PAGE"
         THEN MainInputs(t, Tail(flatList), t[id].name)
         ELSE <<IF currentPageName # None
                THEN AddPageProperty(GenerateBaseBlock(t, id), currentPageName)
                ELSE GenerateBaseBlock(t, id)>>
              \o MainInputs(t, Tail(flatList), currentPageName)

\* UserControls with a descriptor for the groups under the root only.
UserControlsTopLevel(t, flatList) ==
    LET groups == SelectSeq(flatList, LAMBDA id :
                        t[id].type = "GROUP" /\ t[id].parent = RootId)
    IN [i \in 1..Len(groups) |-> GroupDescriptor(t, groups[i])]

UserControls(t, flatList) ==
    LET groups == SelectSeq(flatList, LAMBDA id : t[id].type = "GROUP")
    IN [i \in 1..Len(groups) |-> GroupDescriptor(t, groups[i])]

\* The regenerated text: the template around the operator, and in its body
\* the new Inputs block, the Outputs and ViewInfo blocks of the original
\* and the Tools block with the new helper before the other tools.
FinalContent(mainInputs, userControls, content, tools) ==
    File(TemplatePre, TemplatePost, TRUE, <<>>, TRUE, mainInputs,
         content.outputs, content.viewInfo, tools.otherTools, TRUE,
         userControls)

\* GenerateSettingFile with the test of line 244 on the Outputs block alone.
GenerateSettingFileOutputsOnly(t, content, tools, maxIndex) ==
    LET flatList == Flatten(t, RootId)
        labelled == AssignLabels(t, flatList, FirstAutoLabel(t, maxIndex))
        threw == content.outputs = None
    IN [tree |-> labelled, threw |-> threw,
        content |-> IF threw THEN EmptyFile
                    ELSE FinalContent(MainInputs(labelled, flatList, None),
                                      UserControls(labelled, flatList),
                                      content, tools)]

\* generateSettingFile. tree is the tree as the call leaves it; threw tells
\* whether the call ended in the error of line 244, and then there is no
\* content.
\* GenerateSettingFile taking a new label for every group made in the
\* session, whether it has one already or not.
GenerateSettingFileFreshLabels(t, content, tools, maxIndex) ==
    LET flatList == Flatten(t, RootId)
        cleared == [id \in DOMAIN t |->
                        IF t[id].type = "GROUP" /\ t[id].key = None
                        THEN [t[id] EXCEPT !.internalKey = NoKey]
                        ELSE t[id]]
        labelled == AssignLabels(cleared, flatList,
                                 FirstAutoLabel(t, maxIndex))
        threw == content.outputs = None \/ content.viewInfo = None
    IN [tree |-> labelled, threw |-> threw,
        content |-> IF threw THEN EmptyFile
                    ELSE FinalContent(MainInputs(labelled, flatList, None),
                                      UserControls(labelled, flatList),
                                      content, tools)]

GenerateSettingFile(t, content, tools, maxIndex) ==
    LET flatList == Flatten(t, RootId)
        labelled == AssignLabels(t, flatList, FirstAutoLabel(t, maxIndex))
        threw == content.outputs = None \/ content.viewInfo = None
    IN [tree |-> labelled, threw |-> threw,
        content |-> IF threw THEN EmptyFile
                    ELSE FinalContent(MainInputs(labelled, flatList, None),
                                      UserControls(labelled, flatList),
                                      content, tools)]

(***************************************************************************)
(* script.js: the state of the buttons (updateButtonStates) and the        *)
(* handlers. A handler runs only while its button is enabled.              *)
(***************************************************************************)
\* Rendered without the test on hidden of line 82.
RenderedWithHidden(t) == {id \in DOMAIN t : t[id].type # "ROOT"}

\* The ids of the list items render() creates.
Rendered(t) == {id \in DOMAIN t : t[id].type # "ROOT" /\ ~t[id].hidden}

Siblings(t, id) == t[t[id].parent].children

\* Date.now(): an id no node of the tree has.
FreshId(t) ==
    LET top == CHOOSE n \in DOMAIN t : \A m \in DOMAIN t : m <= n
    IN Max(FirstFreshId, top + 1)

\* The selected ids as Array.from(selectedIds) lists them after the sort of
\* the group handler: by index among the siblings.
RECURSIVE SortByIndex(_, _)
SortByIndex(t, sel) ==
    IF sel = {} THEN <<>>
    ELSE LET first == CHOOSE a \in sel : \A b \in sel :
                         \/ IndexOf(Siblings(t, a), a) < IndexOf(Siblings(t, b), b)
                         \/ /\ IndexOf(Siblings(t, a), a) = IndexOf(Siblings(t, b), b)
                            /\ a <= b
         IN <<first>> \o SortByIndex(t, sel \ {first})

TheSelected == CHOOSE id \in selectedIds : TRUE
IsSingleSelection == Cardinality(selectedIds) = 1

GroupEnabled == selectedIds # {}
PageEnabled == IsSingleSelection
DeleteEnabled == selectedIds # {}
OutputEnabled == tree[RootId].children # <<>>
RenameEnabled ==
    /\ IsSingleSelection
    /\ \/ tree[TheSelected].type \in {"GROUP", "PAGE"}
       \/ tree[TheSelected].type = "CONTROL" /\ ~tree[TheSelected].hidden
MoveUpEnabled ==
    /\ IsSingleSelection
    /\ IndexOf(Siblings(tree, TheSelected), TheSelected) # 1
MoveDownEnabled ==
    /\ IsSingleSelection
    /\ IndexOf(Siblings(tree, TheSelected), TheSelected)
            # Len(Siblings(tree, TheSelected))
IndentEnabled ==
    /\ IsSingleSelection
    /\ LET i == IndexOf(Siblings(tree, TheSelected), TheSelected) IN
       /\ i > 1
       /\ tree[Siblings(tree, TheSelected)[i - 1]].type = "GROUP"
       /\ tree[TheSelected].type \in {"CONTROL", "GROUP"}
       /\ tree[TheSelected].parent
            = tree[Siblings(tree, TheSelected)[i - 1]].parent
OutdentEnabled ==
    /\ IsSingleSelection
    /\ tree[tree[TheSelected].parent].type = "GROUP"

\* splice(i, 0, x) with a 0-based index i.
InsertAt(s, i, x) ==
    LET k == Min(i, Len(s)) IN SubSeq(s, 1, k) \o <<x>> \o SubSeq(s, k + 1, Len(s))

\* splice(i, 1, ...xs) with a 1-based index i of an element of s.
ReplaceAt(s, i, xs) == SubSeq(s, 1, i - 1) \o xs \o SubSeq(s, i + 1, Len(s))

\* GroupNodes without the filter of line 270: the selected nodes stay in the
\* children of their former parent.
GroupNodesUnfiltered(t, sel, name) ==
    LET selectedNodes == SortByIndex(t, sel)
        firstNode == selectedNodes[1]
        parent == t[firstNode].parent
        siblings == t[parent].children
        firstIndex == IndexOf(siblings, firstNode) - 1
        newId == FreshId(t)
        newGroup == [Node("GROUP", name, parent, None, NoBlock, None, FALSE,
                          NoKey) EXCEPT !.children = selectedNodes]
        newSiblings == InsertAt(siblings, firstIndex, newId)
    IN [id \in DOMAIN t \cup {newId} |->
            IF id = newId THEN newGroup
            ELSE IF id \in sel THEN [t[id] EXCEPT !.parent = newId]
            ELSE IF id = parent THEN [t[id] EXCEPT !.children = newSiblings]
            ELSE t[id]]

\* GroupNodes with push for splice(firstIndex, 0, newGroup): the new group
\* goes after the siblings that are left.
GroupNodesAtEnd(t, sel, name) ==
    LET selectedNodes == SortByIndex(t, sel)
        firstNode == selectedNodes[1]
        parent == t[firstNode].parent
        siblings == t[parent].children
        newId == FreshId(t)
        newGroup == [Node("GROUP", name, parent, None, NoBlock, None, FALSE,
                          NoKey) EXCEPT !.children = selectedNodes]
        newSiblings == Append(SelectSeq(siblings, LAMBDA id : id \notin sel),
                              newId)
    IN [id \in DOMAIN t \cup {newId} |->
            IF id = newId THEN newGroup
            ELSE IF id \in sel THEN [t[id] EXCEPT !.parent = newId]
            ELSE IF id = parent THEN [t[id] EXCEPT !.children = newSiblings]
            ELSE t[id]]

\* The group handler, lines 262-272.
GroupNodes(t, sel, name) ==
    LET selectedNodes == SortByIndex(t, sel)
        firstNode == selectedNodes[1]
        parent == t[firstNode].parent
        siblings == t[parent].children
        firstIndex == IndexOf(siblings, firstNode) - 1
        newId == FreshId(t)
        newGroup == [Node("GROUP", name, parent, None, NoBlock, None, FALSE,
                          NoKey) EXCEPT !.children = selectedNodes]
        newSiblings == InsertAt(SelectSeq(siblings, LAMBDA id : id \notin sel),
                                firstIndex, newId)
    IN [id \in DOMAIN t \cup {newId} |->
            IF id = newId THEN newGroup
            ELSE IF id \in sel THEN [t[id] EXCEPT !.parent = newId]
            ELSE IF id = parent THEN [t[id] EXCEPT !.children = newSiblings]
            ELSE t[id]]

\* The rename handler, lines 287-311, with the trimmed name.
RenameNode(t, id, newName) ==
    IF t[id].type \in {"GROUP", "PAGE"}
    THEN [t EXCEPT ![id].name = newName]
    ELSE IF t[id].type = "CONTROL" /\ ~t[id].hidden
    THEN [t EXCEPT ![id].propName = newName, ![id].renamed = TRUE]
    ELSE t

RECURSIVE TopLevelNode(_, _)
TopLevelNode(t, id) ==
    IF t[id].parent # NoId /\ t[t[id].parent].type # "ROOT"
    THEN TopLevelNode(t, t[id].parent) ELSE id

\* The page handler, lines 320-331.
AddPage(t, id, name) ==
    LET index == IndexOf(t[RootId].children, TopLevelNode(t, id))
        newId == FreshId(t)
        newPage == Node("PAGE", name, RootId, None, NoBlock, None, FALSE, NoKey)
    IN IF index = 0 THEN t
       ELSE [x \in DOMAIN t \cup {newId} |->
                IF x = newId THEN newPage
                ELSE IF x = RootId
                THEN [t[x] EXCEPT !.children = InsertAt(@, index - 1, newId)]
                ELSE t[x]]

\* DeleteNode with the children of the node pushed at the end of the
\* parent's children instead of spliced in at the node's index.
DeleteNodeAppending(t, id) ==
    LET parent == t[id].parent
        index == IF parent = NoId THEN 0 ELSE IndexOf(t[parent].children, id)
        promoted == t[id].children
    IN IF parent = NoId \/ index = 0 THEN t
       ELSE [x \in DOMAIN t \ {id} |->
                IF x = parent
                THEN [t[x] EXCEPT !.children =
                                    ReplaceAt(@, index, <<>>) \o promoted]
                ELSE IF x \in Range(promoted)
                THEN [t[x] EXCEPT !.parent = parent]
                ELSE t[x]]

\* One turn of the loop of the delete handler, lines 341-349.
DeleteNode(t, id) ==
    LET parent == t[id].parent
        index == IF parent = NoId THEN 0 ELSE IndexOf(t[parent].children, id)
        promoted == t[id].children
    IN IF parent = NoId \/ index = 0 THEN t
       ELSE [x \in DOMAIN t \ {id} |->
                IF x = parent
                THEN [t[x] EXCEPT !.children = ReplaceAt(@, index, promoted)]
                ELSE IF x \in Range(promoted)
                THEN [t[x] EXCEPT !.parent = parent]
                ELSE t[x]]

RECURSIVE DeleteNodes(_, _)
DeleteNodes(t, ids) ==
    IF ids = <<>> THEN t
    ELSE DeleteNodes(IF Head(ids) \in DOMAIN t THEN DeleteNode(t, Head(ids))
                     ELSE t, Tail(ids))

Swap(s, i, j) == [s EXCEPT ![i] = s[j], ![j] = s[i]]

\* The move handlers, lines 361-367 and 376-382.
MoveUp(t, id) ==
    LET index == IndexOf(Siblings(t, id), id) IN
    IF index > 1
    THEN [t EXCEPT ![t[id].parent].children = Swap(@, index - 1, index)]
    ELSE t

MoveDown(t, id) ==
    LET index == IndexOf(Siblings(t, id), id) IN
    IF index < Len(Siblings(t, id))
    THEN [t EXCEPT ![t[id].parent].children = Swap(@, index, index + 1)]
    ELSE t

\* The indent handler, lines 391-403.
Indent(t, id) ==
    LET parent == t[id].parent
        siblings == t[parent].children
        index == IndexOf(siblings, id)
    IN IF /\ index > 1
          /\ t[siblings[index - 1]].type = "GROUP"
          /\ t[id].parent = t[siblings[index - 1]].parent
       THEN LET potentialParent == siblings[index - 1] IN
            [t EXCEPT ![parent].children = ReplaceAt(@, index, <<>>),
                      ![potentialParent].children = Append(@, id),
                      ![id].parent = potentialParent]
       ELSE t

\* Outdent with the node put after the last child of the grandparent.
OutdentAtEnd(t, id) ==
    LET parent == t[id].parent IN
    IF parent = NoId \/ t[parent].type = "ROOT" THEN t
    ELSE LET grandparent == t[parent].parent IN
         [t EXCEPT
                ![parent].children = ReplaceAt(@, IndexOf(@, id), <<>>),
                ![grandparent].children = Append(@, id),
                ![id].parent = grandparent]

\* The outdent handler, lines 411-421.
Outdent(t, id) ==
    LET parent == t[id].parent IN
    IF parent = NoId \/ t[parent].type = "ROOT" THEN t
    ELSE LET grandparent == t[parent].parent
             parentIndex == IndexOf(t[grandparent].children, parent)
         IN [t EXCEPT
                ![parent].children = ReplaceAt(@, IndexOf(@, id), <<>>),
                ![grandparent].children = InsertAt(@, parentIndex, id),
                ![id].parent = grandparent]

\* The shift-click branch of the list's click handler, lines 232-247.
\* ShiftSelection without the test of line 242 on the siblings of the range.
ShiftSelectionUnfiltered(t, sel, lastId, clickedId) ==
    IF /\ t[clickedId].type = "CONTROL" /\ t[lastId].type = "CONTROL"
       /\ t[clickedId].parent = t[lastId].parent
    THEN LET siblings == Siblings(t, clickedId)
             lastIndex == IndexOf(siblings, lastId)
             clickedIndex == IndexOf(siblings, clickedId)
         IN {siblings[i] : i \in Min(lastIndex, clickedIndex)
                                    ..Max(lastIndex, clickedIndex)}
    ELSE sel

ShiftSelection(t, sel, lastId, clickedId) ==
    IF /\ t[clickedId].type = "CONTROL" /\ t[lastId].type = "CONTROL"
       /\ t[clickedId].parent = t[lastId].parent
    THEN LET siblings == Siblings(t, clickedId)
             lastIndex == IndexOf(siblings, lastId)
             clickedIndex == IndexOf(siblings, clickedId)
         IN {siblings[i] : i \in {j \in Min(lastIndex, clickedIndex)
                                        ..Max(lastIndex, clickedIndex) :
                                    /\ t[siblings[j]].type = "CONTROL"
                                    /\ ~t[siblings[j]].hidden}}
    ELSE sel

(***************************************************************************)
(* The input files.                                                        *)
(***************************************************************************)
Kinds == {"ctrl", "main", "sep", "grp1", "grp2"}
Pages == {None, "", "Controls", "A"}

\* The declaration at position i of a file: a control, a MainInput, a
\* separator, or the proxy of the group AutoLabel1 or AutoLabel2.
\* The other kinds have keys in the likeness of MainInput1: in lower case
\* and in upper case, without digits, on a separator and on the proxy of the
\* group AutoLabel1.
Decl(kind, i, page) ==
    CASE kind = "ctrl" -> Block("Ctl" \o ToString(i), page, PlainSource, None)
      [] kind = "main" -> Block("MainInput1", page, PlainSource, None)
      [] kind = "sep" -> Block("Sep" \o ToString(i), page, SepSource, None)
      [] kind = "grp1" -> Block("Grp" \o ToString(i), page, 1, None)
      [] kind = "grp2" -> Block("Grp" \o ToString(i), page, 2, None)
      [] kind = "mainLower" -> Block("maininput2", page, PlainSource, None)
      [] kind = "mainUpper" -> Block("MAININPUT3", page, PlainSource, None)
      [] kind = "mainBare" -> Block("MainInput", page, PlainSource, None)
      [] kind = "mainSep" -> Block("MainInput1", page, SepSource, None)
      [] kind = "mainGrp" -> Block("MainInput1", page, 1, None)

\* The labels of the input files: AutoLabel1 and AutoLabel2.
Labels == {1, 2}

\* The labels the declarations refer to.
UsedLabels(decls) == {decls[i].source : i \in 1..Len(decls)} \cap Labels

\* The helper's descriptors: sizes[l] is the LBLC_NumInputs of AutoLabel<l>,
\* or -1 when the helper has no descriptor for it.
Descriptors(sizes) ==
    LET labels == SelectSeq(<<1, 2>>, LAMBDA l : sizes[l] >= 0)
    IN [i \in 1..Len(labels) |->
            Descriptor(labels[i], "Group" \o ToString(labels[i]), 1,
                       sizes[labels[i]])]

\* The descriptor lists for a declaration sequence: a descriptor of any size
\* up to maxSize, or none, for each label a declaration refers to.
SizeMaps(decls, maxSize) ==
    {sizes \in [Labels -> -1..maxSize] :
        \A l \in Labels : l \notin UsedLabels(decls) => sizes[l] = -1}

\* The rest of a file: what surrounds the operator and what its body holds
\* besides the Inputs block and the helper node.
Envelope(pre, post, extras, outputs, viewInfo, otherTools) ==
    [pre |-> pre, post |-> post, extras |-> extras, outputs |-> outputs,
     viewInfo |-> viewInfo, otherTools |-> otherTools]

PlainEnvelope ==
    Envelope(TemplatePre, TemplatePost, <<>>, "Outputs", "ViewInfo", <<"Blur1">>)
RichEnvelope ==
    Envelope("-- exported { Tools = ordered() {", "}, ActiveTool, Extra }",
             <<"CtrlWZoom = false", "CustomData">>, "Outputs", "ViewInfo",
             <<"Blur1", "Merge1">>)
BrokenEnvelope ==
    Envelope(TemplatePre, TemplatePost, <<>>, "Outputs", None, <<>>)
\* Files with no top-level Outputs block, and with neither block.
NoOutputsEnvelope ==
    Envelope(TemplatePre, TemplatePost, <<>>, None, "ViewInfo", <<"Blur1">>)
BareEnvelope ==
    Envelope(TemplatePre, TemplatePost, <<>>, None, None, <<"Blur1">>)

MacroFile(env, decls, sizes) ==
    File(env.pre, env.post, TRUE, env.extras, TRUE, decls, env.outputs,
         env.viewInfo, env.otherTools, \E l \in Labels : sizes[l] >= 0,
         Descriptors(sizes))

\* A text with no GroupOperator or MacroOperator header.
NotAMacro == [EmptyFile EXCEPT !.pre = "not a macro"]

Envelopes == {RichEnvelope}
SessionKinds == {"ctrl", "main", "grp1"}
SessionPages == {None, "A"}

GroupNames == {"G"}
PageNames == {"P"}
NewNames == {"R"}

(***************************************************************************)
(* The handlers as actions.                                                *)
(***************************************************************************)
\* op: the handler; ids: the ids selected when it ran; moved: the ids of the
\* nodes it gave another parent.
Did(op, ids, moved) == [op |-> op, ids |-> ids, moved |-> moved]

\* No text function was called, and its text is empty.
NoCall == [text |-> <<>>, returned |-> FALSE, value |-> <<>>]

Init ==
    /\ tree = EmptyTree
    /\ originalContent = EmptyFile
    /\ mainOperatorName = "MyMacro"
    /\ mainOperatorType = "GroupOperator"
    /\ originalTools = NoTools
    /\ maxAutoLabelIndex = 0
    /\ selectedIds = {}
    /\ lastSelectedId = NoId
    /\ outputText = EmptyFile
    /\ edits = 0
    /\ last = Did("init", {}, {})
    /\ call = NoCall

\* The test of line 52 on what parseSettingFile returned: there is a
\* result and it has a tree.
HasTree(result) == RootId \in DOMAIN result.tree

\* processInputContent, called for the handler op: the result is installed,
\* or, when it has no tree, the error is caught and reported, with the
\* content already stored by line 49.
ProcessInputContent(content, op) ==
    LET result == ParseSettingFile(content) IN
    /\ originalContent' = content
    /\ IF HasTree(result)
       THEN /\ tree' = result.tree
            /\ mainOperatorName' = result.mainOperatorName
            /\ mainOperatorType' = result.mainOperatorType
            /\ originalTools' = result.originalTools
            /\ maxAutoLabelIndex' = result.maxAutoLabelIndex
            /\ selectedIds' = {}
            /\ lastSelectedId' = NoId
            /\ last' = Did(op, {}, {})
       ELSE /\ UNCHANGED <<tree, mainOperatorName, mainOperatorType,
                          originalTools, maxAutoLabelIndex, selectedIds,
                          lastSelectedId>>
            /\ last' = Did("load failed", {}, {})
    /\ edits' = 0
    /\ UNCHANGED <<outputText, call>>

\* A file is opened or pasted: a macro of at most n declarations of the
\* given kinds and pages. A load leads to the same state whatever was loaded
\* and edited before it, so a behaviour loads one file.
Load(envs, kinds, pages, n, maxSize) ==
    /\ originalContent = EmptyFile
    /\ \E k \in 1..n : \E ks \in [1..k -> kinds] : \E ps \in [1..k -> pages] :
        LET decls == [i \in 1..k |-> Decl(ks[i], i, ps[i])] IN
        \E sizes \in SizeMaps(decls, maxSize) : \E env \in envs :
            ProcessInputContent(MacroFile(env, decls, sizes), "load")

\* A text that is no macro is opened or pasted.
LoadOther ==
    /\ originalContent = EmptyFile
    /\ ProcessInputContent(NotAMacro, "load")

\* The regenerated text is pasted back.
PasteOutput ==
    /\ edits = 0
    /\ outputText # EmptyFile
    /\ originalContent # outputText
    /\ ProcessInputContent(outputText, "paste")

Click(id) ==
    /\ id \in Rendered(tree)
    /\ selectedIds' = {id}
    /\ lastSelectedId' = id
    /\ UNCHANGED <<tree, originalContent, mainOperatorName, mainOperatorType,
                   originalTools, maxAutoLabelIndex, outputText, edits, last,
                   call>>

ShiftClick(id) ==
    /\ id \in Rendered(tree)
    /\ lastSelectedId # NoId
    /\ selectedIds' = ShiftSelection(tree, selectedIds, lastSelectedId, id)
    /\ UNCHANGED <<tree, originalContent, mainOperatorName, mainOperatorType,
                   originalTools, maxAutoLabelIndex, outputText, edits,
                   lastSelectedId, last, call>>

\* What an edit leaves alone, and the count of edits.
Edit ==
    /\ edits < MaxEdits
    /\ edits' = edits + 1
    /\ UNCHANGED <<originalContent, mainOperatorName, mainOperatorType,
                   originalTools, maxAutoLabelIndex, outputText, call>>

GroupBtn ==
    /\ GroupEnabled
    /\ Edit
    /\ \E name \in GroupNames : tree' = GroupNodes(tree, selectedIds, name)
    /\ selectedIds' = {FreshId(tree)}
    /\ lastSelectedId' = FreshId(tree)
    /\ last' = Did("group", selectedIds, selectedIds)

RenameBtn ==
    /\ RenameEnabled
    /\ Edit
    /\ \E name \in NewNames : tree' = RenameNode(tree, TheSelected, name)
    /\ last' = Did("rename", selectedIds, {})
    /\ UNCHANGED <<selectedIds, lastSelectedId>>

PageBtn ==
    /\ PageEnabled
    /\ Edit
    /\ \E name \in PageNames : tree' = AddPage(tree, TheSelected, name)
    /\ last' = Did("page", selectedIds, {})
    /\ UNCHANGED <<selectedIds, lastSelectedId>>

DeleteBtn ==
    /\ DeleteEnabled
    /\ Edit
    /\ tree' = DeleteNodes(tree, SortByIndex(tree, selectedIds))
    /\ selectedIds' = {}
    /\ lastSelectedId' = NoId
    /\ last' = Did("delete", selectedIds,
                   UNION {Range(tree[id].children) : id \in selectedIds})

MoveUpBtn ==
    /\ MoveUpEnabled
    /\ Edit
    /\ tree' = MoveUp(tree, TheSelected)
    /\ last' = Did("up", selectedIds, {})
    /\ UNCHANGED <<selectedIds, lastSelectedId>>

MoveDownBtn ==
    /\ MoveDownEnabled
    /\ Edit
    /\ tree' = MoveDown(tree, TheSelected)
    /\ last' = Did("down", selectedIds, {})
    /\ UNCHANGED <<selectedIds, lastSelectedId>>

IndentBtn ==
    /\ IndentEnabled
    /\ Edit
    /\ tree' = Indent(tree, TheSelected)
    /\ last' = Did("indent", selectedIds, selectedIds)
    /\ UNCHANGED <<selectedIds, lastSelectedId>>

OutdentBtn ==
    /\ OutdentEnabled
    /\ Edit
    /\ tree' = Outdent(tree, TheSelected)
    /\ last' = Did("outdent", selectedIds, selectedIds)
    /\ UNCHANGED <<selectedIds, lastSelectedId>>

\* The output handler: generateSettingFile, and its content shown unless it
\* threw.
OutputBtn ==
    /\ OutputEnabled
    /\ LET out == GenerateSettingFile(tree, originalContent, originalTools,
                                      maxAutoLabelIndex)
       IN /\ tree' = out.tree
          /\ outputText' = IF out.threw THEN outputText ELSE out.content
          /\ last' = Did(IF out.threw THEN "output failed" ELSE "output", {}, {})
    /\ UNCHANGED <<originalContent, mainOperatorName, mainOperatorType,
                   originalTools, maxAutoLabelIndex, selectedIds,
                   lastSelectedId, edits, call>>

\* An editing session.
Next ==
    \/ Load(Envelopes, SessionKinds, SessionPages, MaxLoad, MaxLoadSize)
    \/ LoadOther
    \/ \E id \in DOMAIN tree : Click(id)
    \/ \E id \in DOMAIN tree : ShiftClick(id)
    \/ GroupBtn
    \/ RenameBtn
    \/ PageBtn
    \/ DeleteBtn
    \/ MoveUpBtn
    \/ MoveDownBtn
    \/ IndentBtn
    \/ OutdentBtn
    \/ OutputBtn

Spec == Init /\ [][Next]_vars

\* The pipeline with no edit: a file is loaded, regenerated, and the
\* regenerated text is loaded in turn.
PipelineNext ==
    \/ Load({PlainEnvelope}, Kinds, Pages, MaxDecls, MaxSize)
    \/ OutputBtn
    \/ PasteOutput

PipelineSpec == Init /\ [][PipelineNext]_vars

\* Regeneration on files with and without the Outputs and ViewInfo blocks,
\* before and after groups are made.
ErrorNext ==
    \/ Load({PlainEnvelope, BrokenEnvelope, NoOutputsEnvelope, BareEnvelope},
            SessionKinds, SessionPages, MaxLoad, MaxLoadSize)
    \/ \E id \in DOMAIN tree : Click(id)
    \/ GroupBtn
    \/ OutputBtn

ErrorSpec == Init /\ [][ErrorNext]_vars

\* A session on files with keys in the likeness of MainInput1.
HiddenKinds ==
    {"ctrl", "main", "mainLower", "mainUpper", "mainBare", "mainSep",
     "mainGrp"}

HiddenNext ==
    \/ Load({PlainEnvelope}, HiddenKinds, {None}, MaxLoad, MaxLoadSize)
    \/ \E id \in DOMAIN tree : Click(id)
    \/ \E id \in DOMAIN tree : ShiftClick(id)
    \/ GroupBtn
    \/ DeleteBtn
    \/ OutputBtn

HiddenSpec == Init /\ [][HiddenNext]_vars

\* The parser alone, on files with and without page changes.
ParseNext == Load({PlainEnvelope}, Kinds, {None, "A"}, MaxDecls, MaxSize)

ParseSpec == Init /\ [][ParseNext]_vars

\* The parser on files of controls, with every kind of Page property.
PagesNext == Load({PlainEnvelope}, {"ctrl"}, Pages \cup {"B"}, MaxDecls, MaxSize)

PagesSpec == Init /\ [][PagesNext]_vars

(***************************************************************************)
(* What the properties are stated with.                                    *)
(***************************************************************************)
RECURSIVE Canon(_, _)
\* The subtree of a node without its ids: the shape, the order of the
\* children, and each node's type, name, Name property and hidden flag.
Canon(t, id) ==
    [type |-> t[id].type, name |-> t[id].name, propName |-> t[id].propName,
     hidden |-> t[id].hidden,
     children |-> [i \in 1..Len(t[id].children) |->
                        Canon(t, t[id].children[i])]]

\* What generateSettingFile returns on the current state.
Regenerated ==
    GenerateSettingFile(tree, originalContent, originalTools,
                        maxAutoLabelIndex)

\* A macro file has been parsed.
Loaded == originalContent.hasOperator

\* The flat list, the metadata map and the log of the parse of the file.
LoadedFlat == FlatList(originalContent)
LoadedMeta == MetadataMap(originalTools)
ParseLog == ParseSettingFile(originalContent).log

IsMarker(i) == LoadedFlat[i].type = "PAGE_MARKER"
IsProxy(i) ==
    /\ LoadedFlat[i].type = "CONTROL_DATA"
    /\ LoadedFlat[i].properties.source \in DOMAIN LoadedMeta
DeclaredSize(i) == LoadedMeta[LoadedFlat[i].properties.source].childCount

\* The last flat item of the block a proxy declares.
SpanEnd(i) == IF IsProxy(i) THEN i + DeclaredSize(i) ELSE i

Groups(t) == {id \in DOMAIN t : t[id].type = "GROUP"}
Labelled(t) == {g \in Groups(t) : t[g].internalKey # NoKey}
Unlabelled(t) == {g \in Groups(t) : t[g].internalKey = NoKey}

RECURSIVE Descendants(_, _)
Descendants(t, id) ==
    UNION {{c} \cup Descendants(t, c) : c \in Range(t[id].children)}

\* The places where a node is a child: <<parent, index>>.
Occurrences(t, id) ==
    {pi \in UNION {{<<n, i>> : i \in 1..Len(t[n].children)} : n \in DOMAIN t} :
        t[pi[1]].children[pi[2]] = id}

RECURSIVE ReachesRoot(_, _, _)
\* Following parent fields from id reaches the root within fuel steps.
ReachesRoot(t, id, fuel) ==
    IF id = RootId THEN TRUE
    ELSE IF fuel = 0 \/ id \notin DOMAIN t THEN FALSE
    ELSE ReachesRoot(t, t[id].parent, fuel - 1)

(***************************************************************************)
(* C1, C2, C3: regeneration.                                               *)
(***************************************************************************)
\* C1: in every state reached by parsing a file and editing the tree,
\* regenerating and parsing the regenerated text gives a tree isomorphic to
\* the tree before the regeneration: same shape and sibling order, same
\* types, names, Name properties and hidden flags.
C1_ReparseIsomorphic ==
    (OutputEnabled /\ ~Regenerated.threw) =>
        Canon(ParseSettingFile(Regenerated.content).tree, RootId)
            = Canon(tree, RootId)

\* C2: with no edit, a file that parses to a non-empty tree, once
\* regenerated and parsed again, gives the tree of the first parse: same
\* shape, order, types, names and hidden flags.
C2_RoundTripIdentity ==
    [][PasteOutput => Canon(tree', RootId) = Canon(tree, RootId)]_vars

\* C3: regeneration replaces the Inputs block and the helper node only: the
\* text before and after the operator, and every other entry of the
\* operator's body, are in the regenerated text as they are in the original,
\* in the original order.
C3_RestIsVerbatim ==
    outputText # EmptyFile =>
        /\ outputText.pre = originalContent.pre
        /\ outputText.post = originalContent.post
        /\ outputText.extras = originalContent.extras
        /\ outputText.outputs = originalContent.outputs
        /\ outputText.viewInfo = originalContent.viewInfo
        /\ outputText.otherTools = originalContent.otherTools

(***************************************************************************)
(* C4, C5: buildTreeRecursive.                                             *)
(***************************************************************************)
\* The flat list has no page marker, and it is the pre-order of a tree with
\* each proxy's size the number of its descendants: every declared block
\* ends within the list and within every block it starts in.
NoMarkers == \A i \in 1..Len(LoadedFlat) : ~IsMarker(i)
WellNested ==
    \A i \in 1..Len(LoadedFlat) :
        /\ SpanEnd(i) <= Len(LoadedFlat)
        /\ \A j \in (i + 1)..SpanEnd(i) : SpanEnd(j) <= SpanEnd(i)

\* The node of that tree that owns flat item j: the nearest proxy whose
\* block holds j, or the root.
ExpectedParent(j) ==
    LET holders == {i \in 1..(j - 1) : IsProxy(i) /\ j <= SpanEnd(i)}
    IN IF holders = {} THEN RootId
       ELSE CHOOSE i \in holders : \A k \in holders : k <= i

ExpectedChildren(p) ==
    SelectSeq([j \in 1..Len(LoadedFlat) |-> j],
              LAMBDA j : ExpectedParent(j) = p)

ExpectedType(j) ==
    IF IsProxy(j) THEN "GROUP"
    ELSE IF LoadedFlat[j].type = "SEPARATOR_DATA" THEN "SEPARATOR"
    ELSE "CONTROL"

\* The block of proxy j is followed by an item of the list the proxy is
\* in: the whole flat list, or the block of the group that holds j.
FollowsInSameList(j) ==
    /\ SpanEnd(j) < Len(LoadedFlat)
    /\ tree[j].parent # RootId => SpanEnd(j) < SpanEnd(tree[j].parent)

\* C4: when the flat list has no page marker and is the pre-order of a tree
\* whose groups' sizes are their numbers of descendants, buildTreeRecursive
\* builds that tree: node j is flat item j, each group's subtree is the
\* block of the next `size` items, and the item after the block, when the
\* list the group is in has one, is the group's next sibling.
C4_ReconstructsTree ==
    (Loaded /\ NoMarkers /\ WellNested) =>
        /\ DOMAIN tree = 0..Len(LoadedFlat)
        /\ \A j \in 1..Len(LoadedFlat) :
            /\ tree[j].type = ExpectedType(j)
            /\ tree[j].key = LoadedFlat[j].key
            /\ tree[j].parent = ExpectedParent(j)
            /\ IsProxy(j) =>
                /\ Descendants(tree, j) = (j + 1)..SpanEnd(j)
                /\ FollowsInSameList(j) =>
                    /\ tree[SpanEnd(j) + 1].parent = tree[j].parent
                    /\ \E i \in 2..Len(tree[tree[j].parent].children) :
                        /\ tree[tree[j].parent].children[i - 1] = j
                        /\ tree[tree[j].parent].children[i] = SpanEnd(j) + 1
        /\ \A p \in 0..Len(LoadedFlat) :
            tree[p].children = ExpectedChildren(p)

\* A group of size 2 that holds a group of size 1, followed by nothing of
\* its own: the inner group's child is not the outer group's.
C4_Witness ==
    /\ Loaded /\ NoMarkers /\ WellNested
    /\ \E i \in 1..Len(LoadedFlat) :
        /\ IsProxy(i) /\ DeclaredSize(i) = 2
        /\ IsProxy(i + 1) /\ DeclaredSize(i + 1) = 1
        /\ tree[i + 2].parent = i + 1
        /\ tree[i + 1].parent = i

\* C5 as stated: for every GROUP the builder makes, from any flat list and
\* any metadata, the size its descriptor declares is the number of flat
\* items that became its descendants.
C5_DeclaredIsConsumed ==
    Loaded => \A g \in Groups(tree) :
        DeclaredSize(g) = Cardinality(Descendants(tree, g))

\* C5, amended: the builder takes for a GROUP the declared number of items,
\* or the items left in the list it is reading when they are fewer; the
\* items taken are the ones next after the proxy, and they become the
\* group's descendants, but for the page markers among them, which become
\* children of the root.
C5_TakenIsCappedAndMarkersLeave ==
    Loaded => \A g \in Groups(tree) :
        LET taken == Min(DeclaredSize(g), ParseLog[g].remaining)
            span == (g + 1)..(g + taken)
        IN /\ g + taken <= Len(LoadedFlat)
           /\ Descendants(tree, g) = {j \in span : ~IsMarker(j)}
           /\ \A j \in span : IsMarker(j) => tree[j].parent = RootId

\* A group that declares more items than are left, with a page marker among
\* the items it takes.
C5_Witness ==
    /\ Loaded
    /\ \E g \in Groups(tree) :
        /\ DeclaredSize(g) > ParseLog[g].remaining
        /\ ParseLog[g].remaining > 0
        /\ \E j \in (g + 1)..(g + ParseLog[g].remaining) : IsMarker(j)

(***************************************************************************)
(* C6, C7: the shape of the tree.                                          *)
(***************************************************************************)
\* C6: in every state reached by parsing and editing, every PAGE has the
\* root for parent and is one of the root's children.
C6_PagesUnderRoot ==
    \A id \in DOMAIN tree : tree[id].type = "PAGE" =>
        /\ tree[id].parent = RootId
        /\ id \in Range(tree[RootId].children)

\* C7: in every state reached by parsing and editing, the nodes are a
\* tree: every node but the root is once in the children of one node, which
\* its parent field names, and the parent fields lead from it to the root.
C7_IsTree ==
    /\ RootId \in DOMAIN tree
    /\ tree[RootId].type = "ROOT"
    /\ tree[RootId].parent = NoId
    /\ \A id \in DOMAIN tree :
        /\ Range(tree[id].children) \subseteq DOMAIN tree \ {RootId}
        /\ id # RootId =>
            /\ tree[id].type # "ROOT"
            /\ tree[id].parent \in DOMAIN tree
            /\ Cardinality(Occurrences(tree, id)) = 1
            /\ \A pi \in Occurrences(tree, id) : pi[1] = tree[id].parent
            /\ ReachesRoot(tree, id, Cardinality(DOMAIN tree))

\* A control moved out of a group that an earlier edit made.
C7_Witness ==
    /\ last.op = "outdent"
    /\ edits = 2
    /\ \E g \in Groups(tree) : g >= FirstFreshId /\ tree[g].children = <<>>
    /\ \A id \in last.ids : tree[id].parent = RootId

(***************************************************************************)
(* C8: the labels generateSettingFile assigns.                             *)
(***************************************************************************)
\* The groups the parser built have different labels.
ParsedLabelsDistinct ==
    LET parsed == ParseSettingFile(originalContent).tree IN
    \A g, h \in Groups(parsed) :
        g # h => parsed[g].internalKey # parsed[h].internalKey

\* C8: a label generateSettingFile gives to a GROUP without one is greater
\* than maxAutoLabelIndex and than the label of every GROUP of the tree;
\* the labels given in one call differ; and, when the parsed groups had
\* different labels, no two groups have the same label after the call,
\* however many edits and regenerations came before.
C8_FreshLabels ==
    [][OutputBtn =>
        /\ \A g \in Unlabelled(tree) :
            /\ tree'[g].internalKey # NoKey
            /\ tree'[g].internalKey > maxAutoLabelIndex
            /\ \A h \in Labelled(tree) :
                tree'[g].internalKey > tree[h].internalKey
            /\ \A h \in Unlabelled(tree) :
                h # g => tree'[h].internalKey # tree'[g].internalKey
        /\ \A h \in Labelled(tree) : tree'[h].internalKey = tree[h].internalKey
        /\ ParsedLabelsDistinct =>
            \A g, h \in Groups(tree') :
                g # h => tree'[g].internalKey # tree'[h].internalKey]_vars

\* A parsed group with its label, and two groups made by edits that a
\* regeneration has labelled.
C8_Witness ==
    /\ last.op = "output"
    /\ maxAutoLabelIndex >= 1
    /\ \E g \in Labelled(tree) : g < FirstFreshId
    /\ Cardinality({g \in Labelled(tree) : g >= FirstFreshId}) = 2

(***************************************************************************)
(* C9: the page markers.                                                   *)
(***************************************************************************)
\* The Page value the parser reads from a declaration, None when it reads
\* none: an absent property, or an empty one.
PageValue(d) == ExtractProperties(d).page

RECURSIVE ActivePage(_, _)
\* The active page before declaration i: "Controls" at first, and after a
\* declaration with a Page value other than the active page, that value.
ActivePage(decls, i) ==
    IF i = 1 THEN DefaultPage
    ELSE LET before == ActivePage(decls, i - 1)
             v == PageValue(decls[i - 1])
         IN IF v # None /\ v # before THEN v ELSE before

\* The position in the flat list of declaration i.
DeclPos(i) ==
    CHOOSE k \in 1..Len(LoadedFlat) :
        /\ ~IsMarker(k)
        /\ Cardinality({j \in 1..k : ~IsMarker(j)}) = i

MarkerPositions == {k \in 1..Len(LoadedFlat) : IsMarker(k)}

\* C9: with the active page "Controls" at first, the flat list has a page
\* marker right before a declaration exactly when the declaration has a Page
\* value other than the active page; the marker has that value, which is the
\* active page from then on; so a declaration with no Page value, or with
\* the active page for value, has no marker, and no marker has the name of
\* the marker before it.
C9_MarkersOnPageChange ==
    Loaded =>
        LET decls == originalContent.inputs IN
        /\ Cardinality({k \in 1..Len(LoadedFlat) : ~IsMarker(k)}) = Len(decls)
        /\ \A i \in 1..Len(decls) :
            LET k == DeclPos(i)
                v == PageValue(decls[i])
                marked == k > 1 /\ IsMarker(k - 1)
            IN /\ LoadedFlat[k].key = decls[i].key
               /\ marked <=> (v # None /\ v # ActivePage(decls, i))
               /\ marked => LoadedFlat[k - 1].name = v
        /\ \A k \in MarkerPositions :
            /\ k < Len(LoadedFlat)
            /\ ~IsMarker(k + 1)
        /\ \A k, m \in MarkerPositions :
            (k < m /\ \A j \in MarkerPositions : ~(k < j /\ j < m))
                => LoadedFlat[k].name # LoadedFlat[m].name

\* A marker for a page, then a declaration with the same Page that gets no
\* marker, and a declaration with an empty Page.
C9_Witness ==
    /\ Loaded
    /\ LET decls == originalContent.inputs IN
       /\ Len(decls) = 3
       /\ MarkerPositions = {1}
       /\ PageValue(decls[1]) = "A"
       /\ PageValue(decls[2]) = "A"
       /\ decls[3].page = ""
       /\ Rendered(tree) = {1, 2, 3, 4}

(***************************************************************************)
(* C10: the delete handler.                                                *)
(***************************************************************************)
\* A children list with each selected node replaced by its children.
Promoted(s) ==
    Flat([i \in 1..Len(s) |->
            IF s[i] \in selectedIds THEN tree[s[i]].children ELSE <<s[i]>>])

\* C10: the delete handler puts the children of a selected node, in their
\* order, where the node was in its parent's children, makes that parent
\* the parent of each of them, and leaves the parent of every other node
\* and every other children list as they were.
C10_DeletePromotes ==
    [][DeleteBtn =>
        \A x \in DOMAIN tree \ selectedIds :
            /\ x \in DOMAIN tree'
            /\ tree'[x].children = Promoted(tree[x].children)
            /\ tree'[x].parent =
                    IF tree[x].parent \in selectedIds
                    THEN tree[tree[x].parent].parent
                    ELSE tree[x].parent]_vars

\* A group with two children has been deleted, and the two are children of
\* the group's parent.
C10_Witness ==
    /\ last.op = "delete"
    /\ Cardinality(last.moved) = 2
    /\ last.ids \cap DOMAIN tree = {}
    /\ \A m \in last.moved :
        m \in DOMAIN tree /\ m \in Range(tree[tree[m].parent].children)

(***************************************************************************)
(* C11: what generateSettingFile writes.                                   *)
(***************************************************************************)
\* C11: generateSettingFile only reads the tree: after the output handler
\* has called it, whether it returned or threw, every node has the fields,
\* the parent and the children it had before.
C11_GenerateOnlyReads ==
    [][OutputBtn => tree' = tree]_vars

(***************************************************************************)
(* C12: a text with no operator header.                                    *)
(***************************************************************************)
\* C12: when the text has no GroupOperator or MacroOperator header,
\* parseSettingFile does not throw and processInputContent takes its
\* failure path: the load is reported as an error and the result of the
\* parse is not installed as the loaded macro.
C12_NoHeaderIsReported ==
    [][LoadOther =>
        /\ last'.op = "load failed"
        /\ UNCHANGED <<tree, mainOperatorName, mainOperatorType,
                       originalTools, maxAutoLabelIndex>>]_vars

(***************************************************************************)
(* C13: the error of generateSettingFile.                                  *)
(***************************************************************************)
\* A complete regenerated text: the operator with its Inputs, Outputs,
\* ViewInfo and Tools blocks, the helper node among the tools, and one
\* declaration for each node that is no page.
Complete(content, t) ==
    /\ content.hasOperator /\ content.hasInputs /\ content.hasHelper
    /\ content.outputs # None /\ content.viewInfo # None
    /\ content.pre = TemplatePre /\ content.post = TemplatePost
    /\ Len(content.inputs)
        = Cardinality({id \in DOMAIN t : t[id].type \notin {"ROOT", "PAGE"}})

Declared(t) ==
    SelectSeq(Flatten(t, RootId), LAMBDA id : t[id].type # "PAGE")

\* The name of the last PAGE before the node in the pre-order, None when no
\* PAGE comes before it.
PageBefore(t, id) ==
    LET flat == Flatten(t, RootId)
        pages == {i \in 1..(IndexOf(flat, id) - 1) : t[flat[i]].type = "PAGE"}
    IN IF pages = {} THEN None
       ELSE t[flat[CHOOSE i \in pages : \A j \in pages : j <= i]].name

\* C14 as stated: the declaration emitted for a CONTROL that was not
\* renamed is the originalBlock of the node.
C14_EmittedVerbatim ==
    (OutputEnabled /\ ~Regenerated.threw) =>
        LET ids == Declared(tree) IN
        \A k \in 1..Len(ids) :
            (tree[ids[k]].type = "CONTROL" /\ ~tree[ids[k]].renamed) =>
                Regenerated.content.inputs[k] = tree[ids[k]].block

\* C14, amended: the declaration emitted for a CONTROL that was not renamed
\* is the originalBlock of the node with its Page property set to the name
\* of the last PAGE before the node in the pre-order; it is the
\* originalBlock itself when no PAGE comes before the node.
C14_EmittedVerbatimButPage ==
    (OutputEnabled /\ ~Regenerated.threw) =>
        LET ids == Declared(tree) IN
        /\ Len(Regenerated.content.inputs) = Len(ids)
        /\ \A k \in 1..Len(ids) :
            (tree[ids[k]].type = "CONTROL" /\ ~tree[ids[k]].renamed) =>
                LET page == PageBefore(tree, ids[k]) IN
                /\ Regenerated.content.inputs[k].key = tree[ids[k]].block.key
                /\ Regenerated.content.inputs[k].source
                        = tree[ids[k]].block.source
                /\ Regenerated.content.inputs[k].name
                        = tree[ids[k]].block.name
                /\ Regenerated.content.inputs[k].page
                        = IF page = None THEN tree[ids[k]].block.page
                          ELSE page

\* A control whose originalBlock has Page "A" comes after a page of another
\* name that an edit made, and a control comes before every page.
C14_Witness ==
    /\ OutputEnabled
    /\ \E c \in DOMAIN tree :
        /\ tree[c].type = "CONTROL" /\ ~tree[c].renamed
        /\ tree[c].block.page = "A"
        /\ PageBefore(tree, c) = "P"
    /\ \E c \in DOMAIN tree :
        /\ tree[c].type = "CONTROL" /\ ~tree[c].renamed
        /\ PageBefore(tree, c) = None

(***************************************************************************)
(* C15: the hidden controls.                                               *)
(***************************************************************************)
\* The keys of the files that are MainInput and digits, in any case.
MainInputKeys == {"MainInput1", "maininput2", "MAININPUT3"}

\* With no page marker, node i is built for declaration i. The nodes the
\* parser built that are still in the tree:
ParsedNodes == {i \in 1..Len(originalContent.inputs) : i \in DOMAIN tree}

\* C15 as stated: every declaration with a MainInput<digits> key, in any
\* case, is built as a hidden node, and no other declaration is; the hidden
\* nodes stay in the tree, are emitted, and are never listed for editing.
C15_MainInputsHidden ==
    (Loaded /\ NoMarkers) =>
        \A i \in ParsedNodes :
            tree[i].hidden <=> originalContent.inputs[i].key \in MainInputKeys

\* C15, amended: a declaration is built as a hidden node exactly when its
\* key is MainInput<digits>, in any case, and it is neither a separator nor
\* the proxy of a group; in every state of the session the hidden nodes are
\* in the tree, hidden, with a declaration in the regenerated text, and
\* they are not listed and not selected.
C15_MainInputControlsHidden ==
    (Loaded /\ NoMarkers) =>
        /\ \A i \in ParsedNodes :
            tree[i].hidden <=>
                /\ originalContent.inputs[i].key \in MainInputKeys
                /\ ~IsProxy(i)
                /\ LoadedFlat[i].type # "SEPARATOR_DATA"
        /\ \A i \in 1..Len(originalContent.inputs) :
            (/\ originalContent.inputs[i].key \in MainInputKeys
             /\ ~IsProxy(i)
             /\ LoadedFlat[i].type # "SEPARATOR_DATA") =>
                /\ i \in DOMAIN tree
                /\ tree[i].hidden
                /\ ReachesRoot(tree, i, Cardinality(DOMAIN tree))
                /\ i \notin Rendered(tree)
                /\ i \notin selectedIds
                /\ \E k \in 1..Len(Regenerated.content.inputs) :
                    /\ Declared(tree)[k] = i
                    /\ Regenerated.content.inputs[k].key
                            = originalContent.inputs[i].key
        /\ \A id \in DOMAIN tree \ ParsedNodes : ~tree[id].hidden

\* After two edits, the last of them a delete, a hidden control with a key
\* in lower case is in the tree, beside a node that is listed.
C15_Witness ==
    /\ Loaded /\ NoMarkers
    /\ last.op = "delete"
    /\ edits = 2
    /\ \E i \in ParsedNodes :
        /\ originalContent.inputs[i].key = "maininput2"
        /\ tree[i].hidden
    /\ Rendered(tree) # {}

(***************************************************************************)
(* C16: one declaration for each node, one descriptor for each group.      *)
(***************************************************************************)
\* The nodes below a node for which a declaration is emitted.
DeclaredBelow(t, id) == {d \in Descendants(t, id) : t[d].type # "PAGE"}

\* C16: generateSettingFile emits one declaration for each node that is
\* neither the root nor a page, in the pre-order of the tree, so that the
\* proxy of a group comes right before the declarations of all the nodes
\* below the group; and one descriptor for each group, in the same order,
\* so none when the tree has no group.
C16_OneDeclarationPerNode ==
    (OutputEnabled /\ ~Regenerated.threw) =>
        LET t == Regenerated.tree
            inputs == Regenerated.content.inputs
            ucs == Regenerated.content.userControls
            ids == Declared(tree)
            groups == SelectSeq(ids, LAMBDA id : tree[id].type = "GROUP")
        IN /\ Len(inputs) = Len(ids)
           /\ Range(ids) = {id \in DOMAIN tree :
                                tree[id].type \notin {"ROOT", "PAGE"}}
           /\ \A k, m \in 1..Len(ids) : k # m => ids[k] # ids[m]
           /\ \A k \in 1..Len(ids) :
                /\ t[ids[k]].key # None => inputs[k].key = t[ids[k]].key
                /\ t[ids[k]].type = "GROUP" =>
                    /\ inputs[k].source = t[ids[k]].internalKey
                    /\ {ids[m] : m \in (k + 1)..
                            (k + Cardinality(DeclaredBelow(tree, ids[k])))}
                        = DeclaredBelow(tree, ids[k])
                /\ t[ids[k]].type = "SEPARATOR" => inputs[k].source = SepSource
                /\ t[ids[k]].type = "CONTROL" =>
                    inputs[k].source = t[ids[k]].block.source
                /\ \A m \in 1..Len(ids) :
                    (tree[ids[k]].parent = tree[ids[m]].parent
                     /\ IndexOf(Siblings(tree, ids[k]), ids[k])
                            < IndexOf(Siblings(tree, ids[m]), ids[m]))
                        => k < m
           /\ Len(ucs) = Len(groups)
           /\ \A j \in 1..Len(groups) :
                /\ ucs[j].label = t[groups[j]].internalKey
                /\ ucs[j].name = t[groups[j]].name
           /\ Groups(tree) = {} => ucs = <<>>

\* A group in a group, with a page in the tree.
C16_Witness ==
    /\ OutputEnabled
    /\ \E g, h \in Groups(tree) : tree[h].parent = g
    /\ \E p \in DOMAIN tree : tree[p].type = "PAGE"

(***************************************************************************)
(* C17: LBLC_NestLevel.                                                    *)
(***************************************************************************)
\* The groups a node is below.
GroupAncestors(t, id) == {a \in Groups(t) : id \in Descendants(t, a)}

\* The groups of the tree in the order of their descriptors.
DescribedGroups == SelectSeq(Declared(tree), LAMBDA id : tree[id].type = "GROUP")

\* C17 as stated: the LBLC_NestLevel of a group's descriptor is the number
\* of the groups the group is below: 0 for a group under the root.
C17_NestLevelIsAncestors ==
    (OutputEnabled /\ ~Regenerated.threw) =>
        \A j \in 1..Len(DescribedGroups) :
            Regenerated.content.userControls[j].nestLevel
                = Cardinality(GroupAncestors(tree, DescribedGroups[j]))

\* C17, amended: the LBLC_NestLevel of a group's descriptor is one more
\* than the number of the groups the group is below: 1 for a group under
\* the root.
C17_NestLevelIsAncestorsPlusOne ==
    (OutputEnabled /\ ~Regenerated.threw) =>
        /\ Len(Regenerated.content.userControls) = Len(DescribedGroups)
        /\ \A j \in 1..Len(DescribedGroups) :
            Regenerated.content.userControls[j].nestLevel
                = Cardinality(GroupAncestors(tree, DescribedGroups[j])) + 1

\* Three groups, each in the one before.
C17_Witness ==
    /\ OutputEnabled
    /\ \E g, h, k \in Groups(tree) :
        /\ tree[g].parent = RootId
        /\ tree[h].parent = g
        /\ tree[k].parent = h

(***************************************************************************)
(* C18: LBLC_NumInputs.                                                    *)
(***************************************************************************)
\* C18: the LBLC_NumInputs of a group's descriptor is the number of the
\* declarations emitted for the nodes below the group in the current tree.
C18_NumInputsIsDeclarationsBelow ==
    (OutputEnabled /\ ~Regenerated.threw) =>
        \A j \in 1..Len(DescribedGroups) :
            Regenerated.content.userControls[j].numInputs
                = Cardinality(DeclaredBelow(tree, DescribedGroups[j]))

(***************************************************************************)
(* The segment parser (part_002).  A text is a sequence of tokens; a       *)
(* header is one token, the last character of which is its opening brace.  *)
(* Offsets count from 0, as in the code.                                   *)
(***************************************************************************)
MaxText == 6        \* tokens in a text handed to the segment parser

MainHeader == "Macro = MacroOperator {"
InputsHeader == "Inputs = ordered() {"
ToolsHeader == "Tools = ordered() {"
HelperHeader == "background_helper = Background {"
Whitespace == {"\n"}
Tokens ==
    {MainHeader, InputsHeader, ToolsHeader, HelperHeader, "{", "}", ",", "\n"}
OpensBrace(c) ==
    c \in {MainHeader, InputsHeader, ToolsHeader, HelperHeader, "{"}

\* text.substring(a, b), for a <= b.
Substring(text, a, b) == SubSeq(text, a + 1, b)

\* text.indexOf(c): the offset of the first c, or -1.
FirstIndex(text, c) ==
    LET at == {k \in 0..(Len(text) - 1) : text[k + 1] = c} IN
    IF at = {} THEN -1 ELSE CHOOSE k \in at : \A m \in at : k <= m

\* The number of tokens of the set that follow each other from offset from.
RunLength(text, from, set) ==
    Cardinality({n \in 1..(Len(text) - from) :
                    \A m \in from..(from + n - 1) : text[m + 1] \in set})

\* The number of tokens of [\s\t]* that end at offset k.
LeadingSpace(text, k) ==
    Cardinality({n \in 1..k : \A m \in (k - n)..(k - 1) :
                                  text[m + 1] \in Whitespace})

\* braceCount of findBlock after the token at offset i, counted from from.
BraceCount(text, from, i) ==
    1 + Cardinality({k \in from..i : OpensBrace(text[k + 1])})
      - Cardinality({k \in from..i : text[k + 1] = "}"})

\* contentEndIndex: the offset at which the loop of findBlock breaks, or -1.
BraceEnd(text, from) ==
    LET ends == {i \in from..(Len(text) - 1) :
                    text[i + 1] = "}" /\ BraceCount(text, from, i) = 0}
    IN IF ends = {} THEN -1 ELSE CHOOSE i \in ends : \A k \in ends : i <= k

\* The length of the match of /^[\s\t]*,+/ at offset e, 0 without a match.
CommaLength(text, e) ==
    LET w == RunLength(text, e, Whitespace)
        c == RunLength(text, e + w, {","})
    IN IF c > 0 THEN w + c ELSE 0

NotFound == [found |-> FALSE]

\* findBlock(text, headerRegex, 0, true); leading says that the regex
\* starts with [\s\t]*.
FindBlock(text, header, leading) ==
    LET k == FirstIndex(text, header)
        ws == IF leading THEN LeadingSpace(text, k) ELSE 0
        startIndex == k - ws
        headerLength == ws + 1
        contentStartIndex == startIndex + headerLength
        contentEndIndex == BraceEnd(text, contentStartIndex)
        endIndex == contentEndIndex + 1 + CommaLength(text, contentEndIndex + 1)
    IN IF k = -1 THEN NotFound
       ELSE IF contentEndIndex = -1 THEN NotFound
       ELSE [found |-> TRUE,
             headerLength |-> headerLength,
             content |-> Substring(text, contentStartIndex, contentEndIndex),
             fullText |-> Substring(text, startIndex, endIndex),
             startIndex |-> startIndex,
             endIndex |-> endIndex]

\* foundBlocks.sort by startIndex, of at most two blocks.
SortBlocks(bs) ==
    IF Len(bs) = 2 /\ bs[2].startIndex < bs[1].startIndex
    THEN <<bs[2], bs[1]>> ELSE bs

StringSegment(content) ==
    [type |-> "string", content |-> content, fullText |-> content]

\* The loop over the sorted blocks, and the rest of the file.
SegmentsOf(fileContent, foundBlocks) ==
    LET F[i \in 0..Len(foundBlocks)] ==
            IF i = 0 THEN [segments |-> <<>>, currentIndex |-> 0]
            ELSE LET p == F[i - 1]
                     block == foundBlocks[i]
                     before ==
                        IF block.startIndex > p.currentIndex
                        THEN <<StringSegment(Substring(fileContent,
                                    p.currentIndex, block.startIndex))>>
                        ELSE <<>>
                 IN [segments |-> p.segments \o before \o
                        <<[type |-> block.type, content |-> block.content,
                           fullText |-> block.fullText]>>,
                     currentIndex |-> block.endIndex]
        end == F[Len(foundBlocks)]
    IN IF end.currentIndex < Len(fileContent)
       THEN Append(end.segments,
                StringSegment(Substring(fileContent, end.currentIndex,
                                        Len(fileContent))))
       ELSE end.segments

\* The blocks parseFileIntoSegments finds, before the sort.
FoundBlocks(fileContent) ==
    LET main == FindBlock(fileContent, MainHeader, FALSE)
        groupBodyOffset == main.startIndex + main.headerLength
        groupBody == main.content
        inputs == FindBlock(groupBody, InputsHeader, TRUE)
        tools == FindBlock(groupBody, ToolsHeader, TRUE)
        toolsBodyOffset == tools.startIndex + tools.headerLength
        toolsBody == tools.content
        helper == FindBlock(toolsBody, HelperHeader, TRUE)
        firstNewlineInTools == FirstIndex(toolsBody, "\n")
        insertionOffset ==
            IF firstNewlineInTools # -1 THEN firstNewlineInTools + 1 ELSE 0
        insertionIndex == groupBodyOffset + toolsBodyOffset + insertionOffset
        inputsBlock ==
            IF inputs.found
            THEN <<[type |-> "inputs_block",
                    startIndex |-> groupBodyOffset + inputs.startIndex,
                    endIndex |-> groupBodyOffset + inputs.endIndex,
                    content |-> inputs.content,
                    fullText |-> inputs.fullText]>>
            ELSE <<>>
        helperBlock ==
            IF ~tools.found THEN <<>>
            ELSE IF helper.found
            THEN <<[type |-> "helper_block",
                    startIndex |-> groupBodyOffset + toolsBodyOffset
                                    + helper.startIndex,
                    endIndex |-> groupBodyOffset + toolsBodyOffset
                                    + helper.endIndex,
                    content |-> helper.content,
                    fullText |-> helper.fullText]>>
            ELSE <<[type |-> "helper_block",
                    startIndex |-> insertionIndex,
                    endIndex |-> insertionIndex,
                    content |-> <<>>,
                    fullText |-> <<>>]>>
    IN IF main.found THEN inputsBlock \o helperBlock ELSE <<>>

ParseFileIntoSegments(fileContent) ==
    SegmentsOf(fileContent, SortBlocks(FoundBlocks(fileContent)))

\* A token is added to the text that will be handed to a text function.
TypeToken(c) ==
    /\ ~call.returned
    /\ Len(call.text) < MaxText
    /\ call' = [call EXCEPT !.text = Append(@, c)]
    /\ UNCHANGED <<tree, originalContent, mainOperatorName, mainOperatorType,
                   originalTools, maxAutoLabelIndex, selectedIds,
                   lastSelectedId, outputText, edits, last>>

\* parseFileIntoSegments is called on the text.
CallParseFileIntoSegments ==
    /\ ~call.returned
    /\ call' = [call EXCEPT !.returned = TRUE,
                            !.value = ParseFileIntoSegments(call.text)]
    /\ UNCHANGED <<tree, originalContent, mainOperatorName, mainOperatorType,
                   originalTools, maxAutoLabelIndex, selectedIds,
                   lastSelectedId, outputText, edits, last>>

SegmentsNext ==
    \/ \E c \in Tokens : TypeToken(c)
    \/ CallParseFileIntoSegments

SegmentsSpec == Init /\ [][SegmentsNext]_vars

(***************************************************************************)
(* C19: the segments tile the file.                                        *)
(***************************************************************************)
\* The text of the segments, one after the other: the content of a string
\* segment, the full text of an inputs or helper segment.
Joined(segments) ==
    LET F[i \in 0..Len(segments)] ==
            IF i = 0 THEN <<>>
            ELSE F[i - 1] \o (IF segments[i].type = "string"
                              THEN segments[i].content
                              ELSE segments[i].fullText)
    IN F[Len(segments)]

\* C19: the texts of the segments parseFileIntoSegments returns for a text,
\* one after the other, are the text.
C19_SegmentsTile ==
    call.returned => Joined(call.value) = call.text

(***************************************************************************)
(* findBlockContent (part_001, writer.js).  A text is a sequence of        *)
(* characters; offsets count from 0, as in the code.                       *)
(***************************************************************************)
MaxChars == 6       \* characters in a text handed to findBlockContent

Chars == {"h", "{", "}"}

\* The markers of the callers: a header that ends in its opening brace, and
\* the opening brace alone.
Markers == {<<"h", "{">>, <<"{">>}

\* content.indexOf(marker, position): the position is clamped to the text.
IndexOfFrom(content, marker, position) ==
    LET from == Max(0, Min(position, Len(content)))
        at == {k \in from..(Len(content) - Len(marker)) :
                  \A j \in 1..Len(marker) : content[k + j] = marker[j]}
    IN IF at = {} THEN -1 ELSE CHOOSE k \in at : \A m \in at : k <= m

\* The loop of findBlockContent from offset i at the depth braceDepth:
\* blockEndIndex.
RECURSIVE ScanBraces(_, _, _)
ScanBraces(content, i, braceDepth) ==
    IF i >= Len(content) THEN -1
    ELSE IF content[i + 1] = "{"
    THEN ScanBraces(content, i + 1, braceDepth + 1)
    ELSE IF content[i + 1] = "}"
    THEN IF braceDepth - 1 = 0 THEN i
         ELSE ScanBraces(content, i + 1, braceDepth - 1)
    ELSE ScanBraces(content, i + 1, braceDepth)

\* The loop started at depth 0.
BlockEndIndexFromZero(content, blockContentStartIndex) ==
    ScanBraces(content, blockContentStartIndex, 0)

\* The loop as findBlockContent starts it: the brace of the marker is open.
BlockEndIndex(content, blockContentStartIndex) ==
    ScanBraces(content, blockContentStartIndex, 1)

Null == [found |-> FALSE]

FindBlockContent(content, blockStartMarker, startIndex) ==
    LET startMarkerIndex == IndexOfFrom(content, blockStartMarker, startIndex)
        blockContentStartIndex == startMarkerIndex + Len(blockStartMarker)
        blockEndIndex == BlockEndIndex(content, blockContentStartIndex)
    IN IF startMarkerIndex = -1 THEN Null
       ELSE IF blockEndIndex = -1 THEN Null
       ELSE [found |-> TRUE,
             content |-> Substring(content, blockContentStartIndex,
                                   blockEndIndex),
             startIndex |-> startMarkerIndex,
             endIndex |-> blockEndIndex + 1]

\* A character is added to the text that will be handed to findBlockContent.
TypeChar(c) ==
    /\ ~call.returned
    /\ Len(call.text) < MaxChars
    /\ call' = [call EXCEPT !.text = Append(@, c)]
    /\ UNCHANGED <<tree, originalContent, mainOperatorName, mainOperatorType,
                   originalTools, maxAutoLabelIndex, selectedIds,
                   lastSelectedId, outputText, edits, last>>

\* findBlockContent is called on the text, with a marker and a start offset
\* before, in or after the text.
CallFindBlockContent(marker, startIndex) ==
    /\ ~call.returned
    /\ call' = [call EXCEPT !.returned = TRUE,
                    !.value = [marker |-> marker, startIndex |-> startIndex,
                               result |-> FindBlockContent(call.text, marker,
                                                           startIndex)]]
    /\ UNCHANGED <<tree, originalContent, mainOperatorName, mainOperatorType,
                   originalTools, maxAutoLabelIndex, selectedIds,
                   lastSelectedId, outputText, edits, last>>

BlockNext ==
    \/ \E c \in Chars : TypeChar(c)
    \/ \E marker \in Markers : \E startIndex \in (-1)..(Len(call.text) + 1) :
            CallFindBlockContent(marker, startIndex)

BlockSpec == Init /\ [][BlockNext]_vars

(***************************************************************************)
(* C20: what findBlockContent returns.                                     *)
(***************************************************************************)
NumberOf(s, c) == Cardinality({i \in 1..Len(s) : s[i] = c})

\* No prefix of s closes more braces than it opens.
NeverBelow(s) ==
    \A n \in 0..Len(s) :
        NumberOf(SubSeq(s, 1, n), "}") <= NumberOf(SubSeq(s, 1, n), "{")

\* s opens as many braces as it closes, and no prefix closes more.
Balanced(s) == NeverBelow(s) /\ NumberOf(s, "{") = NumberOf(s, "}")

\* The marker stands at offset k of the text.
OccursAt(text, marker, k) ==
    /\ k >= 0
    /\ k + Len(marker) <= Len(text)
    /\ \A j \in 1..Len(marker) : text[k + j] = marker[j]

\* The first offset, at or after start, at which the marker stands.
FirstOccurrence(text, marker, start, k) ==
    /\ k >= start
    /\ OccursAt(text, marker, k)
    /\ \A m \in 0..(k - 1) : m >= start => ~OccursAt(text, marker, m)

\* The brace at offset e closes the brace that the marker at offset k opens.
Matches(text, marker, k, e) ==
    /\ k + Len(marker) <= e
    /\ e < Len(text)
    /\ text[e + 1] = "}"
    /\ Balanced(Substring(text, k + Len(marker), e))

\* C20: findBlockContent returns null when the marker does not stand at or
\* after the start offset, or when no brace closes the brace of its first
\* occurrence there; otherwise it returns the offset of that occurrence, the
\* offset after the matching closing brace and the text between the two
\* braces, which is balanced.
C20_BalancedBlockOrNull ==
    call.returned =>
        LET text == call.text
            marker == call.value.marker
            start == call.value.startIndex
            result == call.value.result
            found == {k \in 0..Len(text) :
                        FirstOccurrence(text, marker, start, k)}
        IN /\ ~result.found <=>
                \/ found = {}
                \/ \E k \in found :
                     \A e \in 0..Len(text) : ~Matches(text, marker, k, e)
           /\ result.found =>
                /\ result.startIndex \in found
                /\ Matches(text, marker, result.startIndex,
                           result.endIndex - 1)
                /\ result.content =
                     Substring(text, result.startIndex + Len(marker),
                               result.endIndex - 1)
                /\ NeverBelow(result.content)

\* A block with a block inside is found after the start offset, past an
\* occurrence of the marker before it.
C20_Witness ==
    /\ call.returned
    /\ call.value.result.found
    /\ call.value.startIndex > 0
    /\ OccursAt(call.text, call.value.marker, 0)
    /\ NumberOf(call.value.result.content, "{") > 0
    /\ call.value.result.endIndex < Len(call.text)

(***************************************************************************)
(* C21: the Page property of the emitted declarations.                     *)
(***************************************************************************)
\* C21: a declaration emitted after a PAGE node of the pre-order carries the
\* name of the last such node as its Page property, and a declaration
\* emitted before the first PAGE node carries no Page property.
C21_PageIsActivePage ==
    (OutputEnabled /\ ~Regenerated.threw) =>
        LET ids == Declared(tree) IN
        \A k \in 1..Len(ids) :
            Regenerated.content.inputs[k].page = PageBefore(tree, ids[k])

(***************************************************************************)
(* updateInstanceInputName on the text of a declaration (writer.js).  The  *)
(* text is a sequence of tokens: the head with its opening brace, the      *)
(* properties, commas, the closing brace, and line breaks, each with the   *)
(* indentation that follows it.                                            *)
(***************************************************************************)
MaxProps == 3       \* properties in a declaration handed to the rename
MaxBlock == 10      \* tokens in such a declaration

DeclHead == "Ctl1 = InstanceInput {"
NameProp(value) == "Name = \"" \o value \o "\""
OtherProps == {"SourceOp = \"Blur1\"", "Source = \"Gain\""}
NameProps == {NameProp(v) : v \in {"Old"} \cup NewNames}
BlockTokens == {DeclHead, "}", ",", "\n", NameProp("Old")} \cup OtherProps

\* The match of namePropRegex: a line break and its indentation, the Name
\* property, the white space after it and a comma if one follows.  The
\* offset (from 1) of the line break of the first match, or 0.
NameMatch(block) ==
    LET at == {i \in 1..(Len(block) - 1) :
                  block[i] = "\n" /\ block[i + 1] \in NameProps}
    IN IF at = {} THEN 0 ELSE CHOOSE i \in at : \A j \in at : i <= j

\* The number of tokens of the match that follow the Name property.
NameMatchTail(block, i) ==
    LET ws == RunLength(block, i + 1, Whitespace)
    IN IF i + 1 + ws < Len(block) /\ block[i + 2 + ws] = ","
       THEN ws + 1 ELSE ws

UpdateInstanceInputNameText(block, newName) ==
    LET i == NameMatch(block)
        braceIdx == IndexOf(block, DeclHead)
        after == {k \in (braceIdx + 1)..Len(block) : block[k] = "\n"}
        insertPos == IF after = {} THEN braceIdx
                     ELSE CHOOSE k \in after : \A m \in after : k <= m
    IN IF i # 0
       THEN SubSeq(block, 1, i) \o <<NameProp(newName), ",">>
            \o SubSeq(block, i + 2 + NameMatchTail(block, i), Len(block))
       ELSE IF braceIdx = 0 THEN block
       ELSE SubSeq(block, 1, insertPos)
            \o <<NameProp(newName), ",", "\n">>
            \o SubSeq(block, insertPos + 1, Len(block))

IsProp(c) == c \in NameProps \cup OtherProps
PropsOf(block) == SelectSeq(block, IsProp)

\* The last token of a text that is no line break, or "" for none.
LastToken(block) ==
    LET at == {i \in 1..Len(block) : block[i] # "\n"} IN
    IF at = {} THEN "" ELSE block[CHOOSE i \in at : \A j \in at : j <= i]

\* A token is added to the text of a declaration: the head, then
\* properties with commas between them, each once, then the closing brace.
TypeBlockToken(c) ==
    /\ ~call.returned
    /\ Len(call.text) < MaxBlock
    /\ LET block == call.text
           lastToken == LastToken(block)
       IN CASE c = DeclHead -> block = <<>>
            [] c = "\n" -> IF block = <<>> THEN FALSE
                           ELSE block[Len(block)] # "\n" /\ lastToken # "}"
            [] c = "," -> IF block = <<>> THEN FALSE
                          ELSE IsProp(block[Len(block)])
            [] c = "}" -> lastToken \in {DeclHead, ","} \/ IsProp(lastToken)
            [] OTHER -> /\ lastToken \in {DeclHead, ","}
                        /\ c \notin Range(block)
                        /\ Len(PropsOf(block)) < MaxProps
    /\ call' = [call EXCEPT !.text = Append(@, c)]
    /\ UNCHANGED <<tree, originalContent, mainOperatorName, mainOperatorType,
                   originalTools, maxAutoLabelIndex, selectedIds,
                   lastSelectedId, outputText, edits, last>>

\* generateBaseBlock on a renamed control whose originalBlock is the text.
CallUpdateInstanceInputName(newName) ==
    /\ ~call.returned
    /\ LastToken(call.text) = "}"
    /\ call' = [call EXCEPT !.returned = TRUE,
                    !.value = [newName |-> newName,
                               result |-> UpdateInstanceInputNameText(
                                              call.text, newName)]]
    /\ UNCHANGED <<tree, originalContent, mainOperatorName, mainOperatorType,
                   originalTools, maxAutoLabelIndex, selectedIds,
                   lastSelectedId, outputText, edits, last>>

RenameNext ==
    \/ \E c \in BlockTokens : TypeBlockToken(c)
    \/ \E newName \in NewNames : CallUpdateInstanceInputName(newName)

RenameSpec == Init /\ [][RenameNext]_vars

(***************************************************************************)
(* C22: the declaration of a renamed control.                              *)
(***************************************************************************)
\* The properties with the Name property, if any, given the value.
Renamed(props, newName) ==
    [k \in 1..Len(props) |->
        IF props[k] \in NameProps THEN NameProp(newName) ELSE props[k]]

\* C22: the declaration of a renamed control has one Name property, with
\* the new name: the Name property of the original declaration rewritten in
\* its place, or a Name property before the others when the original has
\* none; the other properties are those of the original, in their order.
C22_OneNameRestKept ==
    call.returned =>
        LET before == PropsOf(call.text)
            after == PropsOf(call.value.result)
            newName == call.value.newName
        IN /\ Cardinality({k \in 1..Len(after) : after[k] \in NameProps}) = 1
           /\ IF \E k \in 1..Len(before) : before[k] \in NameProps
              THEN after = Renamed(before, newName)
              ELSE after = <<NameProp(newName)>> \o before

(***************************************************************************)
(* C23: the builder on any flat list and any sizes.                        *)
(***************************************************************************)
\* The offsets of the flat list with or without a marker, in their order.
ItemsWhere(markers) ==
    SelectSeq([i \in 1..Len(LoadedFlat) |-> i],
              LAMBDA i : IsMarker(i) = markers)

\* C23: whatever the sizes of the metadata, the tree built from a flat list
\* has one node for each item; the pre-order of its nodes that are no PAGE
\* is the sequence of the declarations of the list, each with its key and
\* its text, and the PAGE nodes are the children of the root, in the order
\* and with the names of the markers.
C23_NothingLostOrReordered ==
    Loaded =>
        /\ DOMAIN tree = 0..Len(LoadedFlat)
        /\ Declared(tree) = ItemsWhere(FALSE)
        /\ \A i \in Range(ItemsWhere(FALSE)) :
            /\ tree[i].type # "PAGE"
            /\ tree[i].key = LoadedFlat[i].key
            /\ tree[i].block = LoadedFlat[i].block
        /\ SelectSeq(tree[RootId].children, LAMBDA c : tree[c].type = "PAGE")
                = ItemsWhere(TRUE)
        /\ \A i \in Range(ItemsWhere(TRUE)) :
            /\ tree[i].type = "PAGE"
            /\ tree[i].name = LoadedFlat[i].name
            /\ tree[i].parent = RootId
        /\ \A i \in 1..Len(LoadedFlat) :
            /\ i \in Range(tree[tree[i].parent].children)
            /\ Cardinality(Occurrences(tree, i)) = 1

\* A group declared larger than the list it is in, in a group of size 0 or
\* in one that is itself larger than what is left, and a marker in the file.
C23_Witness ==
    /\ Loaded
    /\ \E g, h \in Groups(tree) :
        /\ g < h
        /\ DeclaredSize(h) > ParseLog[h].remaining
        /\ DeclaredSize(g) = 0 \/ DeclaredSize(g) > ParseLog[g].remaining
    /\ \E j \in 1..Len(LoadedFlat) : IsMarker(j)

(***************************************************************************)
(* C24: the selection.                                                     *)
(***************************************************************************)
\* C24: every selected id is the id of a node of the tree that is shown,
\* and the nodes of a selection of more than one are controls of one parent.
C24_SelectionIsValid ==
    /\ \A id \in selectedIds :
        /\ id \in DOMAIN tree
        /\ id # RootId
        /\ ~tree[id].hidden
        /\ tree[id].parent \in DOMAIN tree
        /\ id \in Range(tree[tree[id].parent].children)
    /\ Cardinality(selectedIds) > 1 =>
        /\ \A id \in selectedIds : tree[id].type = "CONTROL"
        /\ \A a, b \in selectedIds : tree[a].parent = tree[b].parent

\* Two controls are selected across a page that was added between them.
C24_Witness ==
    /\ Cardinality(selectedIds) = 2
    /\ edits > 0
    /\ \E a, b \in selectedIds : \E p \in DOMAIN tree :
        /\ tree[p].type = "PAGE"
        /\ tree[p].parent = tree[a].parent
        /\ LET siblings == Siblings(tree, a) IN
           /\ IndexOf(siblings, a) < IndexOf(siblings, p)
           /\ IndexOf(siblings, p) < IndexOf(siblings, b)

(***************************************************************************)
(* C25: the hidden controls stay.                                          *)
(***************************************************************************)
\* The tree as the parser built it from the loaded text.
ParsedTree == ParseSettingFile(originalContent).tree

HiddenIn(t) == {id \in DOMAIN t \ {RootId} : t[id].hidden}

\* C25: in every state of a session the hidden nodes reachable from the
\* root are the hidden nodes of the parse, and the regenerated text has one
\* declaration for each of them, with its key and source.
C25_HiddenStay ==
    Loaded =>
        /\ {id \in HiddenIn(tree) : id \in Range(Flatten(tree, RootId))}
                = HiddenIn(ParsedTree)
        /\ \A h \in HiddenIn(ParsedTree) :
            /\ Cardinality({k \in 1..Len(Declared(tree)) :
                                Declared(tree)[k] = h}) = 1
            /\ tree[h].block = ParsedTree[h].block
            /\ (OutputEnabled /\ ~Regenerated.threw) =>
                \A k \in 1..Len(Declared(tree)) : Declared(tree)[k] = h =>
                    /\ Regenerated.content.inputs[k].key = ParsedTree[h].key
                    /\ Regenerated.content.inputs[k].source
                            = ParsedTree[h].block.source

\* The group around a hidden control was deleted, and the control promoted.
C25_Witness ==
    /\ Loaded
    /\ last.op = "delete"
    /\ \E h \in HiddenIn(tree) :
        /\ h \in last.moved
        /\ ParsedTree[h].parent # RootId
        /\ tree[h].parent = RootId

(***************************************************************************)
(* The Tools block of the output (writer.js:219-233).  The content of a    *)
(* Tools block is a sequence of tokens: the nodes, each with its braces,   *)
(* commas, and line breaks with the indentation that follows them.         *)
(***************************************************************************)
MaxToolText == 7    \* tokens in the content of a Tools block
MaxRounds == 2      \* regenerations of one Tools block

HelperNode == "background_helper = Background { ... }"
ToolNodes == {"Blur1 = Blur { ... }", "Merge1 = Merge { ... }"}
ToolTokens == {HelperNode, ",", "\n"} \cup ToolNodes

\* The tools without the block findBlockContent finds for the helper: the
\* first helper node, from its name to its closing brace.
CleanedTools(tools) ==
    LET at == IndexOf(tools, HelperNode) IN
    IF at = 0 THEN tools
    ELSE SubSeq(tools, 1, at - 1) \o SubSeq(tools, at + 1, Len(tools))

\* cleanedTools.replace(/^[\s,]*/, '').
CleanedHead(cleanedTools) ==
    SubSeq(cleanedTools, RunLength(cleanedTools, 0, {"\n", ","}) + 1,
           Len(cleanedTools))

\* newToolsBlockContent: the new helper node, then the cleaned tools if
\* they are more than white space.
NewToolsBlockContent(tools) ==
    LET cleanedTools == CleanedTools(tools) IN
    IF \A k \in 1..Len(cleanedTools) : cleanedTools[k] \in Whitespace
    THEN <<HelperNode>>
    ELSE <<HelperNode, ",", "\n">> \o CleanedHead(cleanedTools)

\* The content of the Tools block of the output, as the parser reads it.
ToolsContent(newToolsBlockContent) ==
    <<"\n">> \o newToolsBlockContent \o <<"\n">>

\* A token is added to the content of a Tools block: nodes with a comma
\* between them, each once, and line breaks.
TypeToolToken(c) ==
    /\ ~call.returned
    /\ Len(call.text) < MaxToolText
    /\ LET tools == call.text
           lastToken == LastToken(tools)
       IN CASE c = "\n" -> IF tools = <<>> THEN TRUE
                           ELSE tools[Len(tools)] # "\n"
            [] c = "," -> IF tools = <<>> THEN FALSE
                          ELSE tools[Len(tools)] \in ToolNodes \cup {HelperNode}
            [] OTHER -> lastToken \in {"", ","} /\ c \notin Range(tools)
    /\ call' = [call EXCEPT !.text = Append(@, c)]
    /\ UNCHANGED <<tree, originalContent, mainOperatorName, mainOperatorType,
                   originalTools, maxAutoLabelIndex, selectedIds,
                   lastSelectedId, outputText, edits, last>>

\* The tools are regenerated, and the output is parsed.
RegenerateTools ==
    /\ LastToken(call.text) # ""
    /\ IF call.returned THEN call.value.rounds < MaxRounds ELSE TRUE
    /\ call' = [text |-> ToolsContent(NewToolsBlockContent(call.text)),
                returned |-> TRUE,
                value |-> [original |-> IF call.returned
                                        THEN call.value.original
                                        ELSE call.text,
                           rounds |-> IF call.returned
                                      THEN call.value.rounds + 1 ELSE 1]]
    /\ UNCHANGED <<tree, originalContent, mainOperatorName, mainOperatorType,
                   originalTools, maxAutoLabelIndex, selectedIds,
                   lastSelectedId, outputText, edits, last>>

ToolsNext ==
    \/ \E c \in ToolTokens : TypeToolToken(c)
    \/ RegenerateTools

ToolsSpec == Init /\ [][ToolsNext]_vars

(***************************************************************************)
(* C26: one helper node, first, and one comma between the tools.           *)
(***************************************************************************)
NodesOf(tools) ==
    SelectSeq(tools, LAMBDA c : c \in ToolNodes \cup {HelperNode})

\* The number of commas between the k-th node of the tools and the next.
CommasAfter(tools, k) ==
    LET at == {i \in 1..Len(tools) : tools[i] \in ToolNodes \cup {HelperNode}}
        pos(n) == CHOOSE i \in at : Cardinality({j \in at : j <= i}) = n
    IN Cardinality({i \in (pos(k) + 1)..(pos(k + 1) - 1) : tools[i] = ","})

\* C26: after any number of regenerations the Tools block holds the helper
\* node once, first, then the other tools of the original in their order,
\* with one comma between each node and the next.
C26_OneHelperOneComma ==
    call.returned =>
        /\ NodesOf(call.text)
            = <<HelperNode>> \o
              SelectSeq(call.value.original, LAMBDA c : c \in ToolNodes)
        /\ \A k \in 1..(Len(NodesOf(call.text)) - 1) :
                CommasAfter(call.text, k) = 1

(***************************************************************************)
(* C27: a second regeneration.                                             *)
(***************************************************************************)
\* C27: with no edit since the output was generated, generating it again
\* gives the same content, and leaves the labels of the groups as they are.
C27_SecondCallSame ==
    last.op = "output" =>
        /\ ~Regenerated.threw
        /\ Regenerated.content = outputText
        /\ Regenerated.tree = tree

\* The output was generated for a tree with two groups made in the session,
\* which took their labels in the call.
C27_Witness ==
    /\ last.op = "output"
    /\ \E g, h \in Groups(tree) :
        /\ g # h
        /\ tree[g].key = None /\ tree[h].key = None
        /\ tree[g].internalKey # NoKey /\ tree[h].internalKey # NoKey

(***************************************************************************)
(* C28: the group operation.                                               *)
(***************************************************************************)
\* The selected node that comes first among its siblings.
FirstSelected ==
    CHOOSE a \in selectedIds : \A b \in selectedIds :
        IndexOf(Siblings(tree, a), a) <= IndexOf(Siblings(tree, b), b)

\* C28: the group handler makes one new GROUP without internalKey, at the
\* index of the first selected node in the children of that node's parent;
\* its children are the selected nodes in their order, the siblings that
\* were not selected keep their order, no other node changes, and the new
\* group is the selection.
C28_GroupPlacesNewGroup ==
    [][GroupBtn =>
        LET first == FirstSelected
            parent == tree[first].parent
            before == tree[parent].children
            IsSelected(id) == id \in selectedIds
            NotSelected(id) == id \notin selectedIds
        IN \E g \in DOMAIN tree' \ DOMAIN tree :
            /\ DOMAIN tree' = DOMAIN tree \cup {g}
            /\ tree'[g].type = "GROUP"
            /\ tree'[g].internalKey = NoKey
            /\ tree'[g].parent = parent
            /\ tree'[g].children = SelectSeq(before, IsSelected)
            /\ Range(tree'[g].children) = selectedIds
            /\ tree'[parent].children[IndexOf(before, first)] = g
            /\ SelectSeq(tree'[parent].children, LAMBDA id : id # g)
                    = SelectSeq(before, NotSelected)
            /\ \A id \in selectedIds :
                tree'[id] = [tree[id] EXCEPT !.parent = g]
            /\ \A id \in DOMAIN tree \ (selectedIds \cup {parent}) :
                tree'[id] = tree[id]
            /\ selectedIds' = {g}
            /\ lastSelectedId' = g]_vars

\* Two nodes were grouped, and a sibling that was not selected follows the
\* new group.
C28_Witness ==
    /\ last.op = "group"
    /\ Cardinality(last.ids) = 2
    /\ \E g \in selectedIds :
        /\ tree[g].type = "GROUP"
        /\ Range(tree[g].children) = last.ids
        /\ LET siblings == Siblings(tree, g) IN
           IndexOf(siblings, g) < Len(siblings)

(***************************************************************************)
(* C29: group, then delete the new group.                                  *)
(***************************************************************************)
\* The tree after the group handler and then the delete handler, which
\* finds the new group selected.
GroupedThenDeleted(name) ==
    LET grouped == GroupNodes(tree, selectedIds, name) IN
    DeleteNodes(grouped, SortByIndex(grouped, {FreshId(tree)}))

\* C29: from every state in which the group button is enabled, grouping the
\* selection and deleting the new group gives the tree back: every node
\* with its parent and its children in their order.
C29_GroupThenDeleteRestores ==
    GroupEnabled =>
        \A name \in GroupNames : GroupedThenDeleted(name) = tree

(***************************************************************************)
(* C30: indent and outdent.                                                *)
(***************************************************************************)
\* s without its element x.
Without(s, x) == SelectSeq(s, LAMBDA y : y # x)

\* The step moved node x, and nothing else, from under one node to another.
OnlyMoved(x, from, to) ==
    /\ DOMAIN tree' = DOMAIN tree
    /\ tree'[x] = [tree[x] EXCEPT !.parent = to]
    /\ tree'[from] = [tree[from] EXCEPT !.children = Without(@, x)]
    /\ Without(tree'[to].children, x) = tree[to].children
    /\ tree'[to] = [tree[to] EXCEPT !.children = tree'[to].children]
    /\ \A id \in DOMAIN tree \ {x, from, to} : tree'[id] = tree[id]

\* C30: a step of the indent handler changes the tree only when the sibling
\* just before the node is a GROUP, and then moves the node to the end of
\* that group's children; a step of the outdent handler changes the tree
\* only when the node's parent is a GROUP, and then moves the node to the
\* place just after that parent in the grandparent's children; after an
\* indent step the outdent button is enabled and the outdent handler gives
\* back the tree of before the indent.
C30_IndentOutdent ==
    [][/\ IndentBtn =>
            LET x == TheSelected
                siblings == Siblings(tree, x)
                index == IndexOf(siblings, x)
            IN /\ tree' # tree =>
                    /\ index > 1
                    /\ tree[siblings[index - 1]].type = "GROUP"
                    /\ OnlyMoved(x, tree[x].parent, siblings[index - 1])
                    /\ tree'[siblings[index - 1]].children
                            = Append(tree[siblings[index - 1]].children, x)
               /\ tree' # tree
               /\ OutdentEnabled'
               /\ Outdent(tree', x) = tree
       /\ OutdentBtn =>
            LET x == TheSelected
                parent == tree[x].parent
            IN /\ tree' # tree =>
                    /\ tree[parent].type = "GROUP"
                    /\ OnlyMoved(x, parent, tree[parent].parent)
                    /\ LET after == tree'[tree[parent].parent].children IN
                       after[IndexOf(after, parent) + 1] = x
               /\ tree' # tree]_vars

\* An outdent, the second edit of the session, gave the loaded tree back:
\* the edit before it was the indent of the same node.
C30_Witness ==
    /\ last.op = "outdent"
    /\ edits = 2
    /\ tree = ParsedTree

====
